---- MODULE Spec2Model ----
(***************************************************************************)
(* A model of the Screeps colony code of honcoops/screeps: the spawn       *)
(* scheduler (manager.spawn.js), the per-tick creep loop (main.js), the    *)
(* hauler role (role.hauler.js) and the cached-path movement resolvers of  *)
(* the mobile roles.  Memory is the only state that survives a tick; the   *)
(* room a role sees in a tick and the result codes the game returns are    *)
(* inputs of the actions.                                                  *)
(***************************************************************************)
EXTENDS Integers, Sequences, FiniteSets, TLC

VARIABLES
    creeps,        \* census of the room: creep memory kind -> number of live creeps
    roomState,     \* what getSpawnPriority reads of the room besides the creeps
    spawning,      \* spawn.spawning
    spawnLog,      \* the last request spawnManager.run made and spawnCreep's result
    loopCreeps,    \* Game.creeps of this tick, in the order the loop visits them
    hasSpawn,      \* creep.room.find(FIND_MY_SPAWNS)[0] exists
    loopPos,       \* the creep the loop of main.js is at
    ranRole,       \* names of the creeps whose role logic was run this tick
    errLog,        \* names logged by the catch block this tick
    selRoom,       \* the room a target selection of the hauler is made in
    selected,      \* what the last target selection returned
    creepMemory,   \* creep.memory of a hauler
    haulObs,       \* what the last run of the hauler read and did
    pathMemory,    \* creep.memory of a creep that moves along a cached path
    pathObs,       \* what the last call of its movement resolver read and did
    Game_time,     \* Game.time
    Memory_creeps, \* Memory.creeps: creep name -> record
    Game_creeps,   \* names of Game.creeps in the tick that is about to run
    memObs,        \* what the last run of the memory cleanup read and did
    global_cache,  \* global.cache: whether it is defined, and key -> entry
    cacheObs,      \* the last call of the cache and what it returned
    creepRecord,   \* creep.memory of the creep whose role logic runs
    roleObs,       \* what the last run of that role logic read and called
    fleetRoom,     \* the room whose spawns are run, as getSpawnPriority reads it but for its creeps
    roomCreeps,    \* room.find(FIND_MY_CREEPS) of this tick, by kind
    createdCreeps, \* the creeps accepted by spawnCreep in this tick, by kind
    createdNames,  \* the names given to spawnCreep calls accepted in this tick
    busySpawns,    \* per spawn of the room, the ticks it stays busy at least (0: idle)
    spawnPos,      \* the spawn the loop over the room's spawns is at
    fleetObs,      \* the last request made by spawnManager.run
    roomLinks,     \* room.memory.links
    linkMode,      \* which links the room has been given to look at
    linkObs,       \* what the last run of linkManager read and called
    room_memory,   \* what the terminal, lab and tower managers keep in room.memory
    Game_market_orders, \* Game.market.orders, the orders of this player
    roomObs        \* what the last run of a room manager read and called

spawnVars == <<creeps, roomState, spawning, spawnLog>>

loopVars == <<loopCreeps, hasSpawn, loopPos, ranRole, errLog>>

selVars == <<selRoom, selected>>

haulVars == <<creepMemory, haulObs>>

pathVars == <<pathMemory, pathObs>>

memVars == <<Memory_creeps, Game_creeps, memObs>>

vars == <<creeps, roomState, spawning, spawnLog,
          loopCreeps, hasSpawn, loopPos, ranRole, errLog,
          selRoom, selected,
          creepMemory, haulObs, pathMemory, pathObs, Game_time,
          Memory_creeps, Game_creeps, memObs,
          global_cache, cacheObs,
          creepRecord, roleObs,
          fleetRoom, roomCreeps, createdCreeps, createdNames, busySpawns, spawnPos, fleetObs,
          roomLinks, linkMode, linkObs,
          room_memory, Game_market_orders, roomObs>>

cacheVars == <<global_cache, cacheObs>>

roleVars == <<creepRecord, roleObs>>

fleetVars == <<fleetRoom, roomCreeps, createdCreeps, createdNames, busySpawns, spawnPos, fleetObs>>

linkVars == <<roomLinks, linkMode, linkObs>>

roomVars == <<room_memory, Game_market_orders, roomObs>>

\* the parts of the state added after the hauler and the path resolvers
laterVars == <<memVars, cacheVars, roleVars, fleetVars, linkVars, roomVars>>

\* what the actions of one part of the program leave alone
notSpawnVars == <<loopVars, selVars, haulVars, pathVars, Game_time, laterVars>>

notLoopVars == <<spawnVars, selVars, haulVars, pathVars, Game_time, laterVars>>

notSelVars == <<spawnVars, loopVars, haulVars, pathVars, Game_time, laterVars>>

notHaulVars == <<spawnVars, loopVars, selVars, pathVars, laterVars>>

notPathVars == <<spawnVars, loopVars, selVars, haulVars, laterVars>>

earlierVars == <<spawnVars, loopVars, selVars, haulVars, pathVars>>

notMemVars == <<earlierVars, cacheVars, roleVars, fleetVars, linkVars, roomVars>>

notCacheVars == <<earlierVars, memVars, roleVars, fleetVars, linkVars, roomVars>>

notRoleVars == <<earlierVars, memVars, cacheVars, fleetVars, linkVars, roomVars>>

notFleetVars == <<earlierVars, memVars, cacheVars, roleVars, linkVars, roomVars>>

notLinkVars == <<earlierVars, memVars, cacheVars, roleVars, fleetVars, roomVars>>

notRoomVars == <<earlierVars, memVars, cacheVars, roleVars, fleetVars, linkVars>>

Undefined == 0

\* ------------------------------------------------------------------ bounds

\* creeps alive in one tick of the main loop
MaxLoopCreeps == 2

\* containers of the room a hauler works in
NumContainers == 2

\* sources of the room (room.memory.sourceIds holds 1..NumSources of them)
NumSources == 2

\* emergency harvesters alive at once (the ladder itself never stops making them)
MaxHarvesters == 2

\* ------------------------------------------------------- manager.spawn.js

OK == 0
ERR_NOT_ENOUGH_ENERGY == -6

OtherRoles == {"harvester", "hauler", "upgrader", "builder", "mineralMiner"}

\* what the scheduler reads of a creep's memory: its role and, of a miner, its source
Kinds ==
    {[role |-> r, sourceId |-> Undefined] : r \in OtherRoles}
    \cup {[role |-> "miner", sourceId |-> s] : s \in 1..NumSources}

RECURSIVE SumOver(_, _)
SumOver(f, S) ==
    IF S = {} THEN 0
    ELSE LET k == CHOOSE x \in S : TRUE IN f[k] + SumOver(f, S \ {k})

\* _.filter(creeps, (c) => c.memory.role === role).length
CountRole(census, role) == SumOver(census, {k \in Kinds : k.role = role})

\* free capacities of a container on both sides of the last rung's test (< 500)
ContainerFree == {499, 500}

\* controller levels on both sides of the ladder's tests (rcl < 8, rcl >= 6)
LadderLevels == 5..8

\* the room as getSpawnPriority sees it
Room ==
    [creeps |-> creeps,
     sourceIds |-> roomState.sourceIds,
     level |-> roomState.level,
     constructionSites |-> roomState.constructionSites,
     minerals |-> roomState.minerals,
     containers |-> roomState.containers]

Null == [role |-> "none"]

\* sources.find(id => !assignedSources.includes(id))
UnassignedSource(room) ==
    LET assigned == {k.sourceId : k \in {x \in Kinds : x.role = "miner" /\ room.creeps[x] > 0}}
        free == {i \in 1..Len(room.sourceIds) : room.sourceIds[i] \notin assigned}
    IN IF free = {} THEN Undefined
       ELSE room.sourceIds[CHOOSE i \in free : \A j \in free : i <= j]

Max(a, b) == IF a >= b THEN a ELSE b

\* the ladder with the hauler rung tried before the miner rung
getSpawnPriority_HaulerFirst(room) ==
    LET miners == CountRole(room.creeps, "miner")
        haulers == CountRole(room.creeps, "hauler")
        upgraders == CountRole(room.creeps, "upgrader")
        builders == CountRole(room.creeps, "builder")
        mineralMiners == CountRole(room.creeps, "mineralMiner")
        sourceCount == Len(room.sourceIds)
        rcl == room.level
        minHaulers == Max(2, sourceCount)
        minUpgraders == IF rcl < 8 THEN 2 ELSE 1
        minBuilders == IF room.constructionSites > 0 THEN 2 ELSE 0
        fullContainers ==
            {i \in 1..Len(room.containers) : room.containers[i] < 500}
    IN IF haulers = 0 /\ miners = 0
       THEN [role |-> "harvester", memory |-> [role |-> "harvester", sourceId |-> Undefined]]
       ELSE IF haulers < minHaulers
       THEN [role |-> "hauler", memory |-> [role |-> "hauler", sourceId |-> Undefined]]
       ELSE IF miners < sourceCount
       THEN [role |-> "miner",
             memory |-> [role |-> "miner", sourceId |-> UnassignedSource(room)]]
       ELSE IF upgraders < minUpgraders
       THEN [role |-> "upgrader", memory |-> [role |-> "upgrader", sourceId |-> Undefined]]
       ELSE IF builders < minBuilders
       THEN [role |-> "builder", memory |-> [role |-> "builder", sourceId |-> Undefined]]
       ELSE IF /\ rcl >= 6
               /\ Len(room.minerals) > 0
               /\ room.minerals[1].mineralAmount > 0
               /\ room.minerals[1].extractor
               /\ mineralMiners = 0
       THEN [role |-> "mineralMiner",
             memory |-> [role |-> "mineralMiner", sourceId |-> Undefined]]
       ELSE IF haulers < sourceCount * 2 /\ fullContainers # {}
       THEN [role |-> "hauler", memory |-> [role |-> "hauler", sourceId |-> Undefined]]
       ELSE Null

getSpawnPriority(room) ==
    LET miners == CountRole(room.creeps, "miner")
        haulers == CountRole(room.creeps, "hauler")
        upgraders == CountRole(room.creeps, "upgrader")
        builders == CountRole(room.creeps, "builder")
        mineralMiners == CountRole(room.creeps, "mineralMiner")
        sourceCount == Len(room.sourceIds)
        rcl == room.level
        minHaulers == Max(2, sourceCount)
        minUpgraders == IF rcl < 8 THEN 2 ELSE 1
        minBuilders == IF room.constructionSites > 0 THEN 2 ELSE 0
        fullContainers ==
            {i \in 1..Len(room.containers) : room.containers[i] < 500}
    IN IF haulers = 0 /\ miners = 0
       THEN [role |-> "harvester", memory |-> [role |-> "harvester", sourceId |-> Undefined]]
       ELSE IF miners < sourceCount
       THEN [role |-> "miner",
             memory |-> [role |-> "miner", sourceId |-> UnassignedSource(room)]]
       ELSE IF haulers < minHaulers
       THEN [role |-> "hauler", memory |-> [role |-> "hauler", sourceId |-> Undefined]]
       ELSE IF upgraders < minUpgraders
       THEN [role |-> "upgrader", memory |-> [role |-> "upgrader", sourceId |-> Undefined]]
       ELSE IF builders < minBuilders
       THEN [role |-> "builder", memory |-> [role |-> "builder", sourceId |-> Undefined]]
       ELSE IF /\ rcl >= 6
               /\ Len(room.minerals) > 0
               /\ room.minerals[1].mineralAmount > 0
               /\ room.minerals[1].extractor
               /\ mineralMiners = 0
       THEN [role |-> "mineralMiner",
             memory |-> [role |-> "mineralMiner", sourceId |-> Undefined]]
       ELSE IF haulers < sourceCount * 2 /\ fullContainers # {}
       THEN [role |-> "hauler", memory |-> [role |-> "hauler", sourceId |-> Undefined]]
       ELSE Null

\* the room's mineral deposit, as the mineral rung reads it
Minerals ==
    {<<>>} \cup {<<[mineralAmount |-> a, extractor |-> e]>> : a \in {0, 1}, e \in BOOLEAN}

Containers == {<<>>} \cup {<<f>> : f \in ContainerFree}

\* the loop of main.js at rest, for the specifications that do not run it
LoopIdle ==
    /\ loopCreeps = <<>>
    /\ hasSpawn = TRUE
    /\ loopPos = 1
    /\ ranRole = {}
    /\ errLog = <<>>

\* no target selection under way, for the specifications that make none
SelIdle ==
    /\ selRoom = [objects |-> {}, terminalNeedsEnergy |-> FALSE]
    /\ selected = [by |-> "none", target |-> <<>>]

\* no hauler has run yet
HaulIdle ==
    /\ creepMemory = [state |-> "collecting", target |-> <<>>, path |-> <<>>,
                      pathAge |-> Undefined]
    /\ haulObs = [phase |-> "none"]

\* no movement resolver has been called yet
PathIdle ==
    /\ pathMemory = [role |-> "none", path |-> <<>>, pathAge |-> Undefined]
    /\ pathObs = [by |-> "none"]

\* the memory manager has not run yet
MemIdle ==
    /\ Memory_creeps = <<>>
    /\ Game_creeps = {}
    /\ memObs = [time |-> 0]

\* nothing has used the global cache yet
CacheIdle ==
    /\ global_cache = [defined |-> FALSE, entries |-> <<>>]
    /\ cacheObs = [op |-> "none"]

\* no role logic of the later parts has run
RoleIdle ==
    /\ creepRecord = [role |-> "none"]
    /\ roleObs = [by |-> "none"]

\* no spawn of the later parts has been run
FleetIdle ==
    /\ fleetRoom = [sourceIds |-> <<>>, level |-> 1, constructionSites |-> 0,
                    minerals |-> <<>>, containers |-> <<>>]
    /\ roomCreeps = [k \in Kinds |-> 0]
    /\ createdCreeps = [k \in Kinds |-> 0]
    /\ createdNames = {}
    /\ busySpawns = <<>>
    /\ spawnPos = 0
    /\ fleetObs = [role |-> "none"]

\* no link has been looked at
LinkIdle ==
    /\ roomLinks = [defined |-> FALSE]
    /\ linkMode = "none"
    /\ linkObs = [by |-> "none"]

\* no room manager has run: room.memory holds nothing of theirs
RoomIdle ==
    /\ room_memory = [part |-> "none"]
    /\ Game_market_orders = {}
    /\ roomObs = [by |-> "none"]

\* the parts named in laterVars, but the one named, are idle
LaterIdle(part) ==
    /\ (part = "memory" \/ MemIdle)
    /\ (part = "cache" \/ CacheIdle)
    /\ (part = "role" \/ RoleIdle)
    /\ (part = "fleet" \/ FleetIdle)
    /\ (part = "links" \/ LinkIdle)
    /\ (part = "rooms" \/ RoomIdle)

RolesIdle ==
    /\ HaulIdle
    /\ PathIdle
    /\ Game_time = 1
    /\ LaterIdle("none")

SpawnInit ==
    /\ LoopIdle
    /\ SelIdle
    /\ RolesIdle
    /\ creeps = [k \in Kinds |-> 0]
    /\ roomState \in
         [sourceIds : {[i \in 1..n |-> i] : n \in 1..NumSources},
          level : {3},
          constructionSites : {0},
          minerals : {<<>>},
          containers : {<<>>}]
    /\ spawning = FALSE
    /\ spawnLog = [role |-> "none", result |-> OK, sourceId |-> Undefined]

\* spawnManager.run(spawn): nothing while the spawn is busy; else request the
\* top of the ladder and, if spawnCreep accepts it, the creep joins the census
spawnManager_run ==
    /\ ~spawning
    /\ LET priority == getSpawnPriority(Room)
       IN IF priority = Null
          THEN /\ spawnLog' = [role |-> "none", result |-> OK, sourceId |-> Undefined]
               /\ UNCHANGED <<creeps, spawning>>
          ELSE \E result \in {OK, ERR_NOT_ENOUGH_ENERGY} :
                 /\ result = OK =>
                      (priority.role = "harvester" =>
                          CountRole(creeps, "harvester") < MaxHarvesters)
                 /\ spawnLog' = [role |-> priority.role, result |-> result,
                                 sourceId |-> priority.memory.sourceId]
                 /\ IF result = OK
                    THEN /\ creeps' = [creeps EXCEPT ![priority.memory] = @ + 1]
                         /\ spawning' = TRUE
                    ELSE UNCHANGED <<creeps, spawning>>
    /\ UNCHANGED roomState
    /\ UNCHANGED notSpawnVars

\* the spawn finishes its creep
SpawnDone ==
    /\ spawning
    /\ spawning' = FALSE
    /\ UNCHANGED <<creeps, roomState, spawnLog>>
    /\ UNCHANGED notSpawnVars

\* a creep dies (age, attack): it leaves room.find(FIND_MY_CREEPS)
CreepDies ==
    /\ \E k \in Kinds :
         /\ creeps[k] > 0
         /\ creeps' = [creeps EXCEPT ![k] = @ - 1]
    /\ UNCHANGED <<roomState, spawning, spawnLog>>
    /\ UNCHANGED notSpawnVars

\* the world changes what the ladder reads: controller level (never down),
\* construction sites, the mineral deposit, the containers
RoomChanges ==
    /\ \/ /\ roomState.level < 8
          /\ roomState' = [roomState EXCEPT !.level = @ + 1]
       \/ \E n \in {0, 1} : roomState' = [roomState EXCEPT !.constructionSites = n]
       \/ \E m \in Minerals : roomState' = [roomState EXCEPT !.minerals = m]
       \/ \E c \in Containers : roomState' = [roomState EXCEPT !.containers = c]
    /\ UNCHANGED <<creeps, spawning, spawnLog>>
    /\ UNCHANGED notSpawnVars

SpawnNext ==
    \/ spawnManager_run
    \/ SpawnDone
    \/ CreepDies
    \/ RoomChanges

SpecSpawn == SpawnInit /\ [][SpawnNext]_vars

\* ------------------------------------------------ the ladder on every census

\* the censuses given to the ladder: no more of a role than its rungs ask for,
\* at most one miner per source of the room
Censuses(sourceCount) ==
    {[k \in Kinds |->
        CASE k.role = "hauler" -> h
          [] k.role = "upgrader" -> u
          [] k.role = "builder" -> b
          [] k.role = "mineralMiner" -> m
          [] k.role = "miner" -> IF k.sourceId \in ms THEN 1 ELSE 0
          [] OTHER -> 0] :
        h \in 0..(2 * NumSources), u \in 0..2, b \in 0..2, m \in 0..1,
        ms \in SUBSET (1..sourceCount)}

LadderInit ==
    /\ LoopIdle
    /\ SelIdle
    /\ RolesIdle
    /\ roomState \in
         [sourceIds : {[i \in 1..n |-> i] : n \in 1..NumSources},
          level : LadderLevels,
          constructionSites : {0, 1},
          minerals : Minerals,
          containers : Containers]
    /\ creeps \in Censuses(Len(roomState.sourceIds))
    /\ spawning = FALSE
    /\ spawnLog = [role |-> "none", result |-> OK, sourceId |-> Undefined]

LadderNext == spawnManager_run

SpecLadder == LadderInit /\ [][LadderNext]_vars

\* ------------------------------------------------------------ C1, C2

\* the condition of rung i of the ladder, read off the room
RungHolds(room, i) ==
    LET miners == CountRole(room.creeps, "miner")
        haulers == CountRole(room.creeps, "hauler")
        sc == Len(room.sourceIds)
    IN CASE i = 1 -> haulers = 0 /\ miners = 0
         [] i = 2 -> miners < sc
         [] i = 3 -> haulers < Max(2, sc)
         [] i = 4 -> CountRole(room.creeps, "upgrader") < (IF room.level < 8 THEN 2 ELSE 1)
         [] i = 5 -> room.constructionSites > 0 /\ CountRole(room.creeps, "builder") < 2
         [] i = 6 -> /\ room.level >= 6
                     /\ \E j \in 1..Len(room.minerals) :
                          j = 1 /\ room.minerals[j].mineralAmount > 0 /\ room.minerals[j].extractor
                     /\ CountRole(room.creeps, "mineralMiner") = 0
         [] i = 7 -> /\ haulers < 2 * sc
                     /\ \E j \in 1..Len(room.containers) : room.containers[j] < 500

RungRole(i) ==
    CASE i = 1 -> "harvester" [] i = 2 -> "miner" [] i = 3 -> "hauler"
      [] i = 4 -> "upgrader" [] i = 5 -> "builder" [] i = 6 -> "mineralMiner"
      [] i = 7 -> "hauler" [] OTHER -> "none"

C2_BootstrapReachesMiner ==
    (/\ roomState.level = 3
     /\ Len(roomState.sourceIds) = 2
     /\ spawnLog.role = "harvester" /\ spawnLog.result = OK
     /\ ~spawning
     /\ CountRole(creeps, "harvester") >= 1
     /\ CountRole(creeps, "miner") = 0 /\ CountRole(creeps, "hauler") = 0)
    => /\ getSpawnPriority(Room).role = "miner"
       /\ getSpawnPriority(Room).memory.sourceId = roomState.sourceIds[1]


\* ---------------------------------------------------------------- main.js

\* the spawn scheduler at rest, for the specifications that do not run it
SpawnIdle ==
    /\ creeps = [k \in Kinds |-> 0]
    /\ roomState = [sourceIds |-> <<>>, level |-> 1, constructionSites |-> 0,
                    minerals |-> <<>>, containers |-> <<>>]
    /\ spawning = FALSE
    /\ spawnLog = [role |-> "none", result |-> OK, sourceId |-> Undefined]

\* the creeps of a tick: creep i is named i; throws says whether its role
\* logic raises an exception this tick
\* a spawning creep has no ticksToLive yet (the comparison with it is false,
\* as with 51) and its role logic is not run
LoopCreep ==
    {c \in [spawning : BOOLEAN, ticksToLive : {50, 51}, role : {"miner", "hauler"},
            throws : BOOLEAN] :
        c.spawning => (c.ticksToLive = 51 /\ ~c.throws)}

LoopInputs ==
    UNION {[1..n -> LoopCreep] : n \in 0..MaxLoopCreeps}

\* the recycling block: an old creep that is no miner, with a spawn in its room,
\* is sent to the spawn and its role logic is skipped (continue)
Recycling(c) == c.ticksToLive <= 50 /\ c.role # "miner" /\ hasSpawn

\* a loop whose role dispatch has no try/catch: the exception leaves the loop
TryRunRole_NoCatch(c, pos, len) ==
    [ran |-> TRUE,
     logged |-> FALSE,
     nextPos |-> IF c.throws THEN len + 1 ELSE pos + 1]

\* try { switch (creep.memory.role) ... } catch (e) { console.log(name ...) }
TryRunRole(c, pos, len) ==
    [ran |-> TRUE,
     logged |-> c.throws,
     nextPos |-> pos + 1]

LoopInit ==
    /\ SpawnIdle
    /\ SelIdle
    /\ RolesIdle
    /\ loopCreeps \in LoopInputs
    /\ hasSpawn \in BOOLEAN
    /\ loopPos = 1
    /\ ranRole = {}
    /\ errLog = <<>>

\* one iteration of for (var name in Game.creeps)
LoopStep ==
    /\ loopPos <= Len(loopCreeps)
    /\ LET c == loopCreeps[loopPos]
           r == TryRunRole(c, loopPos, Len(loopCreeps))
       IN IF c.spawning \/ Recycling(c)
          THEN /\ loopPos' = loopPos + 1
               /\ UNCHANGED <<ranRole, errLog>>
          ELSE /\ loopPos' = r.nextPos
               /\ ranRole' = IF r.ran THEN ranRole \cup {loopPos} ELSE ranRole
               /\ errLog' = IF r.logged THEN Append(errLog, loopPos) ELSE errLog
    /\ UNCHANGED <<loopCreeps, hasSpawn>>
    /\ UNCHANGED notLoopVars

\* the loop is over; the next tick starts with the creeps of that tick
NextTick ==
    /\ loopPos = Len(loopCreeps) + 1
    /\ loopCreeps' \in LoopInputs
    /\ hasSpawn' \in BOOLEAN
    /\ loopPos' = 1
    /\ ranRole' = {}
    /\ errLog' = <<>>
    /\ UNCHANGED notLoopVars

LoopNext ==
    \/ LoopStep
    \/ NextTick

SpecLoop == LoopInit /\ [][LoopNext]_vars

\* ------------------------------------------------------------------ C3

LoopDone == loopPos = Len(loopCreeps) + 1

Throwers == {i \in 1..Len(loopCreeps) : loopCreeps[i].throws}

\* C3 as stated: when the role logic of one agent throws, the role logic of
\* every other non-spawning agent of Game.creeps is still run in that tick.
C3_EveryOtherNonSpawningRuns ==
    LoopDone =>
        \A t \in Throwers \cap ranRole :
            \A i \in 1..Len(loopCreeps) :
                (i # t /\ ~loopCreeps[i].spawning) => i \in ranRole

\* C3, amended: per-agent isolation.  At the end of the loop the role logic
\* has run for exactly the agents that are neither spawning nor being
\* recycled, whichever of them threw, and exactly the agents whose role logic
\* threw are logged by name, in loop order.
C3_Isolation ==
    LoopDone =>
        /\ ranRole = {i \in 1..Len(loopCreeps) :
                         ~loopCreeps[i].spawning /\ ~Recycling(loopCreeps[i])}
        /\ {errLog[j] : j \in 1..Len(errLog)} = Throwers \cap ranRole
        /\ \A j, k \in 1..Len(errLog) : j < k => errLog[j] < errLog[k]

\* an agent threw and was logged, and an agent after it still ran
C3_Witness ==
    /\ LoopDone
    /\ \E t \in Throwers \cap ranRole :
         /\ \E j \in 1..Len(errLog) : errLog[j] = t
         /\ \E i \in ranRole : i > t


\* ------------------------------------------- role.hauler.js: target selection

\* an object of the room as the hauler reads it: energy is store[RESOURCE_ENERGY]
\* (the amount, of a dropped resource), free is store.getFreeCapacity(RESOURCE_ENERGY),
\* reachable says whether findClosestByPath finds a path to it
Obj(id, energy, capacity, free, reachable) ==
    [id |-> id, type |-> id[1], energy |-> energy, capacity |-> capacity,
     free |-> free, reachable |-> reachable]

NoTarget == <<>>

\* a container: gone, or holding 0, 50% or 60% of its capacity
ContainerStates(i) ==
    {{}} \cup {{Obj(<<"container", i>>, e, 2000, 2000 - e, r)} :
                e \in {0, 1000, 1200}, r \in BOOLEAN}

\* all the containers of a room
RECURSIVE ContainerSets(_)
ContainerSets(n) ==
    IF n = 0 THEN {{}}
    ELSE {a \cup b : a \in ContainerSets(n - 1), b \in ContainerStates(n)}

\* a dropped pile of energy at and above the minimum the hauler looks at
DroppedStates ==
    {{}} \cup {{Obj(<<"resource", 1>>, a, 0, 0, r)} : a \in {50, 80}, r \in BOOLEAN}

TombstoneStates ==
    {{}} \cup {{Obj(<<"tombstone", 1>>, e, 0, 0, r)} : e \in {0, 100}, r \in BOOLEAN}

\* room.storage, at and above the draw-down threshold, full or with room
StorageStates ==
    {{}} \cup {{Obj(<<"storage", 1>>, e, 1000000, f, TRUE)} :
                e \in {10000, 10001}, f \in {0, 5000}}

SpawnStates ==
    {{}} \cup {{Obj(<<"spawn", 1>>, 300 - f, 300, f, r)} : f \in {0, 300}, r \in BOOLEAN}

ExtensionStates ==
    {{}} \cup {{Obj(<<"extension", 1>>, 50 - f, 50, f, r)} : f \in {0, 50}, r \in BOOLEAN}

\* a tower at and above the free capacity the hauler looks at
TowerStates ==
    {{}} \cup {{Obj(<<"tower", 1>>, 1000 - f, 1000, f, r)} : f \in {300, 301}, r \in BOOLEAN}

TerminalStates ==
    {{}} \cup {{Obj(<<"terminal", 1>>, 0, 300000, f, TRUE)} : f \in {0, 5000}}

\* rooms that differ in what the hauler collects from
CollectRooms ==
    {[objects |-> c \cup d \cup t \cup st, terminalNeedsEnergy |-> FALSE] :
        c \in ContainerSets(NumContainers), d \in DroppedStates,
        t \in TombstoneStates, st \in StorageStates}

\* rooms that differ in what the hauler delivers to
DeliverRooms ==
    {[objects |-> sp \cup ex \cup tw \cup te \cup st, terminalNeedsEnergy |-> fl] :
        sp \in SpawnStates, ex \in ExtensionStates, tw \in TowerStates,
        te \in TerminalStates, st \in StorageStates, fl \in BOOLEAN}

OfType(room, type) == {o \in room.objects : o.type = type}

\* creep.pos.findClosestByPath(list): one of the members a path leads to, and
\* null when there is none (the set of the values the call may return)
findClosestByPath(list) ==
    IF {o \in list : o.reachable} = {}
    THEN {NoTarget}
    ELSE {o.id : o \in {x \in list : x.reachable}}

\* the five lists findCollectionTarget looks at, in its order
CollectCategory(room, k) ==
    CASE k = 1 -> {s \in OfType(room, "container") : 2 * s.energy > s.capacity}
      [] k = 2 -> {r \in OfType(room, "resource") : r.energy > 50}
      [] k = 3 -> {s \in OfType(room, "container") : s.energy > 0}
      [] k = 4 -> {t \in OfType(room, "tombstone") : t.energy > 0}
      [] k = 5 -> {st \in OfType(room, "storage") : st.energy > 10000}

\* the selection with the dropped piles looked at before the containers
findCollectionTarget_DroppedFirst(room) ==
    IF CollectCategory(room, 2) # {} THEN findClosestByPath(CollectCategory(room, 2))
    ELSE IF CollectCategory(room, 1) # {} THEN findClosestByPath(CollectCategory(room, 1))
    ELSE IF CollectCategory(room, 3) # {} THEN findClosestByPath(CollectCategory(room, 3))
    ELSE IF CollectCategory(room, 4) # {} THEN findClosestByPath(CollectCategory(room, 4))
    ELSE IF CollectCategory(room, 5) # {} THEN {o.id : o \in CollectCategory(room, 5)}
    ELSE {NoTarget}

\* roleHauler.findCollectionTarget: the values it may return in this room
findCollectionTarget(room) ==
    IF CollectCategory(room, 1) # {} THEN findClosestByPath(CollectCategory(room, 1))
    ELSE IF CollectCategory(room, 2) # {} THEN findClosestByPath(CollectCategory(room, 2))
    ELSE IF CollectCategory(room, 3) # {} THEN findClosestByPath(CollectCategory(room, 3))
    ELSE IF CollectCategory(room, 4) # {} THEN findClosestByPath(CollectCategory(room, 4))
    ELSE IF CollectCategory(room, 5) # {} THEN {o.id : o \in CollectCategory(room, 5)}
    ELSE {NoTarget}

\* the five lists findDeliveryTarget looks at, in its order
DeliverCategory(room, k) ==
    CASE k = 1 -> {s \in OfType(room, "spawn") : s.free > 0}
      [] k = 2 -> {s \in OfType(room, "extension") : s.free > 0}
      [] k = 3 -> {s \in OfType(room, "tower") : s.free > 300}
      [] k = 4 -> {s \in OfType(room, "terminal") : room.terminalNeedsEnergy /\ s.free > 0}
      [] k = 5 -> {s \in OfType(room, "storage") : s.free > 0}

\* the selection that fills the terminal whether or not the room asks for it
findDeliveryTarget_NoFlag(room) ==
    IF DeliverCategory(room, 1) # {} THEN findClosestByPath(DeliverCategory(room, 1))
    ELSE IF DeliverCategory(room, 2) # {} THEN findClosestByPath(DeliverCategory(room, 2))
    ELSE IF DeliverCategory(room, 3) # {} THEN findClosestByPath(DeliverCategory(room, 3))
    ELSE IF {s \in OfType(room, "terminal") : s.free > 0} # {}
    THEN {o.id : o \in {s \in OfType(room, "terminal") : s.free > 0}}
    ELSE IF DeliverCategory(room, 5) # {} THEN {o.id : o \in DeliverCategory(room, 5)}
    ELSE {NoTarget}

\* roleHauler.findDeliveryTarget: the values it may return in this room
findDeliveryTarget(room) ==
    IF DeliverCategory(room, 1) # {} THEN findClosestByPath(DeliverCategory(room, 1))
    ELSE IF DeliverCategory(room, 2) # {} THEN findClosestByPath(DeliverCategory(room, 2))
    ELSE IF DeliverCategory(room, 3) # {} THEN findClosestByPath(DeliverCategory(room, 3))
    ELSE IF DeliverCategory(room, 4) # {} THEN {o.id : o \in DeliverCategory(room, 4)}
    ELSE IF DeliverCategory(room, 5) # {} THEN {o.id : o \in DeliverCategory(room, 5)}
    ELSE {NoTarget}

SelInit ==
    /\ SpawnIdle
    /\ LoopIdle
    /\ RolesIdle
    /\ selRoom \in CollectRooms \cup DeliverRooms
    /\ selected = [by |-> "none", target |-> NoTarget]

\* a hauler in collecting state with no cached target selects one
SelectCollection ==
    /\ \E t \in findCollectionTarget(selRoom) :
         selected' = [by |-> "findCollectionTarget", target |-> t]
    /\ UNCHANGED selRoom
    /\ UNCHANGED notSelVars

\* a hauler in delivering state with no cached target selects one
SelectDelivery ==
    /\ \E t \in findDeliveryTarget(selRoom) :
         selected' = [by |-> "findDeliveryTarget", target |-> t]
    /\ UNCHANGED selRoom
    /\ UNCHANGED notSelVars

SelNext ==
    \/ SelectCollection
    \/ SelectDelivery

SpecSelect == SelInit /\ [][SelNext]_vars

\* ------------------------------------------------------------ C5, C6

Ids(objs) == {o.id : o \in objs}

\* the first non-empty list of the collection order, 0 when all are empty
FirstCollect(room) ==
    IF \A k \in 1..5 : CollectCategory(room, k) = {} THEN 0
    ELSE CHOOSE k \in 1..5 :
           /\ CollectCategory(room, k) # {}
           /\ \A j \in 1..(k - 1) : CollectCategory(room, j) = {}

FirstDeliver(room) ==
    IF \A k \in 1..5 : DeliverCategory(room, k) = {} THEN 0
    ELSE CHOOSE k \in 1..5 :
           /\ DeliverCategory(room, k) # {}
           /\ \A j \in 1..(k - 1) : DeliverCategory(room, j) = {}

\* C5 as stated: collection target selection returns a member of the first
\* non-empty category (containers above 50%, dropped energy above 50, any
\* container with energy, tombstones with energy, storage above 10000) and
\* returns no target only when every category is empty.
C5_MemberOfFirstCategory ==
    selected.by = "findCollectionTarget" =>
        IF FirstCollect(selRoom) = 0
        THEN selected.target = NoTarget
        ELSE selected.target \in Ids(CollectCategory(selRoom, FirstCollect(selRoom)))

\* C5, amended: the selection returns a member of the first non-empty
\* category whenever a path leads to one of its members (the storage needs no
\* path), never a member of a lower category; it returns no target when every
\* category is empty and also when no member of the first non-empty category
\* can be reached.  A reachable container at 60% is chosen over a dropped
\* pile of 80.
C5_FirstCategoryOrNothing ==
    selected.by = "findCollectionTarget" =>
        LET k == FirstCollect(selRoom)
            cat == IF k = 0 THEN {} ELSE CollectCategory(selRoom, k)
            open == k = 5 \/ \E o \in cat : o.reachable
        IN /\ selected.target = NoTarget <=> ~(k # 0 /\ open)
           /\ selected.target # NoTarget =>
                /\ selected.target \in Ids(cat)
                /\ k < 5 => \E o \in cat : o.id = selected.target /\ o.reachable
           /\ (\E c \in OfType(selRoom, "container") :
                   c.energy = 1200 /\ c.reachable)
                => selected.target[1] = "container"

\* a container at 60% is selected although a dropped pile of 80 is present
C5_Witness ==
    /\ selected.by = "findCollectionTarget"
    /\ \E c \in OfType(selRoom, "container") :
         c.id = selected.target /\ c.energy = 1200
    /\ \E r \in OfType(selRoom, "resource") : r.energy = 80 /\ r.reachable

\* C6 as stated: delivery target selection returns a member of the first
\* non-empty category (spawns with room, extensions with room, towers with
\* more than 300 free, the terminal if the room flags it and it has room,
\* storage with room); the terminal is never selected while the flag is unset.
C6_MemberOfFirstCategory ==
    selected.by = "findDeliveryTarget" =>
        /\ IF FirstDeliver(selRoom) = 0
           THEN selected.target = NoTarget
           ELSE selected.target \in Ids(DeliverCategory(selRoom, FirstDeliver(selRoom)))
        /\ ~selRoom.terminalNeedsEnergy => selected.target # <<"terminal", 1>>

\* C6, amended: the selection returns a member of the first non-empty
\* category whenever a path leads to one of its members (terminal and storage
\* need no path), never a member of a lower category; it returns no target
\* when every category is empty and also when no member of the first
\* non-empty category can be reached.  The terminal is never selected while
\* the flag is unset.
C6_FirstCategoryOrNothing ==
    selected.by = "findDeliveryTarget" =>
        LET k == FirstDeliver(selRoom)
            cat == IF k = 0 THEN {} ELSE DeliverCategory(selRoom, k)
            open == k >= 4 \/ \E o \in cat : o.reachable
        IN /\ selected.target = NoTarget <=> ~(k # 0 /\ open)
           /\ selected.target # NoTarget =>
                /\ selected.target \in Ids(cat)
                /\ k < 4 => \E o \in cat : o.id = selected.target /\ o.reachable
           /\ ~selRoom.terminalNeedsEnergy => selected.target # <<"terminal", 1>>

\* the flagged terminal is selected although the storage has room
C6_Witness ==
    /\ selected.by = "findDeliveryTarget"
    /\ selected.target = <<"terminal", 1>>
    /\ selRoom.terminalNeedsEnergy
    /\ \E st \in OfType(selRoom, "storage") : st.free > 0

\* ------------------------------------------------ cached-path movement

MaxTime == 3

ERR_NOT_FOUND == -5

ERR_NOT_IN_RANGE == -9

ERR_INVALID_ARGS == -10

NoPath == <<>>

\* two of the eight directions of a step
Directions == {1, 5}

\* what creep.pos.findPathTo may return: the directions of the steps from
\* the creep's position, none when there is no way
FoundPaths == {<<>>} \cup {<<d>> : d \in Directions}

\* a serialization that stores the directions alone
SerializePath_Bare(path) == path

\* Room.serializePath: the position of the first step, then the directions
SerializePath(path) ==
    IF path = <<>> THEN <<>> ELSE <<2525>> \o path

\* Room.deserializePath, as creep.moveByPath reads a stored path: the
\* directions after the position
DeserializePath(stored) ==
    IF stored = <<>> THEN <<>> ELSE Tail(stored)

\* a call of the game API made by a resolver: findPathTo, or moveByPath with
\* the steps it is given
Call(name, steps) == [call |-> name, steps |-> steps]

\* what creep.moveByPath may return: OK, not found, invalid args, tired
MoveResults == {OK, ERR_NOT_FOUND, ERR_INVALID_ARGS, -11}

\* the second half of every resolver: compute a path when none is cached
\* and cache it when it is not empty
cachePath(memory, afterFollow, calls, time, path) ==
    IF memory.path = NoPath
    THEN IF Len(path) > 0
         THEN [memory |-> [memory EXCEPT !.path = SerializePath(path),
                                         !.pathAge = time],
               afterFollow |-> afterFollow,
               calls |-> calls \o <<Call("findPathTo", <<>>), Call("moveByPath", path)>>]
         ELSE [memory |-> memory, afterFollow |-> afterFollow,
               calls |-> calls \o <<Call("findPathTo", <<>>)>>]
    ELSE [memory |-> memory, afterFollow |-> afterFollow, calls |-> calls]

\* the hauler's resolver with the invalid-args result not treated as a failure
roleHauler_moveToTarget_NotFoundOnly(memory, time, moveResult, path) ==
    LET followed == memory.path # NoPath
        m1 == IF followed /\ moveResult = ERR_NOT_FOUND
              THEN [memory EXCEPT !.path = NoPath]
              ELSE memory
    IN cachePath(m1, m1, IF followed THEN <<Call("moveByPath", DeserializePath(memory.path))>>
                          ELSE <<>>, time, path)

\* roleHauler.moveToTarget: memory is creep.memory, moveResult what following
\* the cached path returns, path what findPathTo returns
roleHauler_moveToTarget(memory, time, moveResult, path) ==
    LET followed == memory.path # NoPath
        m1 == IF followed /\ moveResult \in {ERR_NOT_FOUND, ERR_INVALID_ARGS}
              THEN [memory EXCEPT !.path = NoPath]
              ELSE memory
    IN cachePath(m1, m1, IF followed THEN <<Call("moveByPath", DeserializePath(memory.path))>>
                          ELSE <<>>, time, path)

\* roleMiner.moveToSource
roleMiner_moveToSource(memory, time, moveResult, path) ==
    LET followed == memory.path # NoPath
        m1 == IF followed /\ moveResult \in {ERR_NOT_FOUND, ERR_INVALID_ARGS}
              THEN [memory EXCEPT !.path = NoPath]
              ELSE memory
    IN cachePath(m1, m1, IF followed THEN <<Call("moveByPath", DeserializePath(memory.path))>>
                          ELSE <<>>, time, path)

\* roleUpgrader.moveToTarget: returns after following the cached path unless
\* that failed
roleUpgrader_moveToTarget(memory, time, moveResult, path) ==
    IF memory.path # NoPath
    THEN IF moveResult \in {ERR_NOT_FOUND, ERR_INVALID_ARGS}
         THEN cachePath([memory EXCEPT !.path = NoPath],
                        [memory EXCEPT !.path = NoPath],
                        <<Call("moveByPath", DeserializePath(memory.path))>>,
                        time, path)
         ELSE [memory |-> memory, afterFollow |-> memory,
               calls |-> <<Call("moveByPath", DeserializePath(memory.path))>>]
    ELSE cachePath(memory, memory, <<>>, time, path)

\* roleBuilder.moveToTarget
roleBuilder_moveToTarget(memory, time, moveResult, path) ==
    IF memory.path # NoPath
    THEN IF moveResult \in {ERR_NOT_FOUND, ERR_INVALID_ARGS}
         THEN cachePath([memory EXCEPT !.path = NoPath],
                        [memory EXCEPT !.path = NoPath],
                        <<Call("moveByPath", DeserializePath(memory.path))>>,
                        time, path)
         ELSE [memory |-> memory, afterFollow |-> memory,
               calls |-> <<Call("moveByPath", DeserializePath(memory.path))>>]
    ELSE cachePath(memory, memory, <<>>, time, path)

\* ------------------------------------------------------------ hauler role

\* creep.store of a hauler with one CARRY part, working (capacity 50) or
\* destroyed (capacity 0): empty, partly filled, full
Stores ==
    UNION {{[free |-> capacity - e, energy |-> e] :
              e \in {x \in {0, 20, capacity} : x <= capacity}} : capacity \in {0, 50}}

\* the memory a hauler is spawned with
SpawnMemory ==
    [state |-> "collecting", target |-> NoTarget, path |-> NoPath,
     pathAge |-> Undefined]

\* rooms a collecting hauler may see in a tick
HaulCollectRooms ==
    {[objects |-> c \cup d \cup st, terminalNeedsEnergy |-> FALSE] :
        c \in {{}} \cup {{Obj(<<"container", 1>>, e, 2000, 2000 - e, TRUE)} :
                          e \in {0, 1200}},
        d \in {{}, {Obj(<<"resource", 1>>, 80, 0, 0, TRUE)}},
        st \in {{}, {Obj(<<"storage", 1>>, 10001, 1000000, 5000, TRUE)}}}

\* rooms a delivering hauler may see in a tick
HaulDeliverRooms ==
    {[objects |-> sp \cup ex \cup st, terminalNeedsEnergy |-> FALSE] :
        sp \in {{Obj(<<"spawn", 1>>, 300 - f, 300, f, TRUE)} : f \in {0, 300}},
        ex \in {{}} \cup {{Obj(<<"extension", 1>>, 50 - f, 50, f, TRUE)} :
                           f \in {0, 50}},
        st \in {{}} \cup {{Obj(<<"storage", 1>>, 10000, 1000000, f, TRUE)} :
                           f \in {0, 5000}}}

\* what pickup, withdraw and transfer may return: OK, not in range, full
ActionResults == {OK, ERR_NOT_IN_RANGE, -8}

\* Game.getObjectById
getObjectById(room, id) == {o \in room.objects : o.id = id}

\* the state management with the cached path kept across a transition
manageState_KeepPath(memory, store) ==
    LET first == memory.state = "collecting" /\ store.free = 0
        m1 == IF first
              THEN [memory EXCEPT !.state = "delivering", !.target = NoTarget]
              ELSE memory
        second == m1.state = "delivering" /\ store.energy = 0
        m2 == IF second
              THEN [m1 EXCEPT !.state = "collecting", !.target = NoTarget]
              ELSE m1
    IN [memory |-> m2,
        transitions |->
            (IF first THEN <<[from |-> memory.state, memory |-> m1]>> ELSE <<>>)
            \o (IF second THEN <<[from |-> m1.state, memory |-> m2]>> ELSE <<>>)]

\* a state management that deletes target and path of every full hauler,
\* whatever its state
manageState_ClearWhenFull(memory, store) ==
    LET first == store.free = 0
        m1 == IF first
              THEN [memory EXCEPT !.state = "delivering", !.target = NoTarget,
                                  !.path = NoPath]
              ELSE memory
        second == m1.state = "delivering" /\ store.energy = 0
        m2 == IF second
              THEN [m1 EXCEPT !.state = "collecting", !.target = NoTarget,
                              !.path = NoPath]
              ELSE m1
    IN [memory |-> m2,
        transitions |->
            (IF first THEN <<[from |-> memory.state, memory |-> m1]>> ELSE <<>>)
            \o (IF second THEN <<[from |-> m1.state, memory |-> m2]>> ELSE <<>>)]

\* roleHauler.run, state management: the memory it leaves and the state
\* changes it made, each with the memory right after it
manageState(memory, store) ==
    LET first == memory.state = "collecting" /\ store.free = 0
        m1 == IF first
              THEN [memory EXCEPT !.state = "delivering", !.target = NoTarget,
                                  !.path = NoPath]
              ELSE memory
        second == m1.state = "delivering" /\ store.energy = 0
        m2 == IF second
              THEN [m1 EXCEPT !.state = "collecting", !.target = NoTarget,
                              !.path = NoPath]
              ELSE m1
    IN [memory |-> m2,
        transitions |->
            (IF first THEN <<[from |-> memory.state, memory |-> m1]>> ELSE <<>>)
            \o (IF second THEN <<[from |-> m1.state, memory |-> m2]>> ELSE <<>>)]

\* the inputs of one run besides the store and the room: what the target
\* selection returns, what pickup/withdraw/transfer returns, what following
\* the cached path returns, what findPathTo returns
RunInput(found, result, move, path) ==
    [found |-> found, result |-> result, move |-> move, path |-> path]

\* collect with the target selected anew on every tick
collect_Reselect(memory, room, time, in) ==
    LET cached == memory.target
        m1 == [memory EXCEPT !.target = NoTarget, !.path = NoPath]
        m2 == IF in.found # NoTarget THEN [m1 EXCEPT !.target = in.found] ELSE m1
        target == in.found
        out == [memory |-> m2, cached |-> cached, selectionRan |-> TRUE,
                atSelection |-> [target |-> m1.target, path |-> m1.path],
                used |-> target, result |-> <<>>, calls |-> <<>>]
    IN IF target = NoTarget THEN out
       ELSE IF in.result = ERR_NOT_IN_RANGE
       THEN LET mv == roleHauler_moveToTarget(m2, time, in.move, in.path)
            IN [out EXCEPT !.memory = mv.memory, !.result = <<in.result>>,
                           !.calls = mv.calls]
       ELSE [out EXCEPT !.result = <<in.result>>]

\* roleHauler.collect
collect(memory, room, time, in) ==
    LET cached == memory.target
        obj == IF cached = NoTarget THEN {} ELSE getObjectById(room, cached)
        valid == obj # {} /\ \A o \in obj : o.energy # 0
        m1 == IF cached # NoTarget /\ ~valid
              THEN [memory EXCEPT !.target = NoTarget, !.path = NoPath]
              ELSE memory
        m2 == IF ~valid /\ in.found # NoTarget
              THEN [m1 EXCEPT !.target = in.found]
              ELSE m1
        target == IF valid THEN cached ELSE in.found
        out == [memory |-> m2, cached |-> cached, selectionRan |-> ~valid,
                atSelection |-> [target |-> m1.target, path |-> m1.path],
                used |-> target, result |-> <<>>, calls |-> <<>>]
    IN IF target = NoTarget THEN out
       ELSE IF in.result = ERR_NOT_IN_RANGE
       THEN LET mv == roleHauler_moveToTarget(m2, time, in.move, in.path)
            IN [out EXCEPT !.memory = mv.memory, !.result = <<in.result>>,
                           !.calls = mv.calls]
       ELSE [out EXCEPT !.result = <<in.result>>]

\* deliver with the cached target kept after a transfer that succeeded
deliver_KeepTarget(memory, room, time, in) ==
    LET cached == memory.target
        obj == IF cached = NoTarget THEN {} ELSE getObjectById(room, cached)
        full == obj # {} /\ \E o \in obj : o.free = 0
        valid == obj # {} /\ ~full
        m1 == IF full
              THEN [memory EXCEPT !.target = NoTarget, !.path = NoPath]
              ELSE memory
        m2 == IF ~valid /\ in.found # NoTarget
              THEN [m1 EXCEPT !.target = in.found]
              ELSE m1
        storage == OfType(room, "storage")
        target == IF valid THEN cached
                  ELSE IF in.found # NoTarget THEN in.found
                  ELSE IF storage # {} THEN <<"storage", 1>>
                  ELSE NoTarget
        out == [memory |-> m2, cached |-> cached, selectionRan |-> ~valid,
                atSelection |-> [target |-> m1.target, path |-> m1.path],
                used |-> target, result |-> <<>>, calls |-> <<>>]
    IN IF target = NoTarget THEN out
       ELSE IF in.result = ERR_NOT_IN_RANGE
       THEN LET mv == roleHauler_moveToTarget(m2, time, in.move, in.path)
            IN [out EXCEPT !.memory = mv.memory, !.result = <<in.result>>,
                           !.calls = mv.calls]
       ELSE [out EXCEPT !.result = <<in.result>>]

\* roleHauler.deliver
deliver(memory, room, time, in) ==
    LET cached == memory.target
        obj == IF cached = NoTarget THEN {} ELSE getObjectById(room, cached)
        full == obj # {} /\ \E o \in obj : o.free = 0
        valid == obj # {} /\ ~full
        m1 == IF full
              THEN [memory EXCEPT !.target = NoTarget, !.path = NoPath]
              ELSE memory
        m2 == IF ~valid /\ in.found # NoTarget
              THEN [m1 EXCEPT !.target = in.found]
              ELSE m1
        storage == OfType(room, "storage")
        target == IF valid THEN cached
                  ELSE IF in.found # NoTarget THEN in.found
                  ELSE IF storage # {} THEN <<"storage", 1>>
                  ELSE NoTarget
        out == [memory |-> m2, cached |-> cached, selectionRan |-> ~valid,
                atSelection |-> [target |-> m1.target, path |-> m1.path],
                used |-> target, result |-> <<>>, calls |-> <<>>]
    IN IF target = NoTarget THEN out
       ELSE IF in.result = ERR_NOT_IN_RANGE
       THEN LET mv == roleHauler_moveToTarget(m2, time, in.move, in.path)
            IN [out EXCEPT !.memory = mv.memory, !.result = <<in.result>>,
                           !.calls = mv.calls]
       ELSE IF in.result = OK
       THEN [out EXCEPT !.memory = [m2 EXCEPT !.target = NoTarget,
                                              !.path = NoPath],
                        !.result = <<in.result>>]
       ELSE [out EXCEPT !.result = <<in.result>>]

\* the place of an object in the order of a selection: the first list it is
\* in, 6 when it is in none
CollectRank(room, id) ==
    IF \A k \in 1..5 : id \notin {o.id : o \in CollectCategory(room, k)} THEN 6
    ELSE CHOOSE k \in 1..5 :
           /\ id \in {o.id : o \in CollectCategory(room, k)}
           /\ \A j \in 1..(k - 1) : id \notin {o.id : o \in CollectCategory(room, j)}

DeliverRank(room, id) ==
    IF \A k \in 1..5 : id \notin {o.id : o \in DeliverCategory(room, k)} THEN 6
    ELSE CHOOSE k \in 1..5 :
           /\ id \in {o.id : o \in DeliverCategory(room, k)}
           /\ \A j \in 1..(k - 1) : id \notin {o.id : o \in DeliverCategory(room, j)}

\* the first list of a selection that is not empty, 6 when all are empty
BestCollectRank(room) ==
    IF \A k \in 1..5 : CollectCategory(room, k) = {} THEN 6
    ELSE CHOOSE k \in 1..5 :
           /\ CollectCategory(room, k) # {}
           /\ \A j \in 1..(k - 1) : CollectCategory(room, j) = {}

BestDeliverRank(room) ==
    IF \A k \in 1..5 : DeliverCategory(room, k) = {} THEN 6
    ELSE CHOOSE k \in 1..5 :
           /\ DeliverCategory(room, k) # {}
           /\ \A j \in 1..(k - 1) : DeliverCategory(room, j) = {}

\* what a run leaves in haulObs
RunDigest(pre, store, sm, phase, room, out) ==
    [phase |-> phase,
     pre |-> [state |-> pre.state, target |-> pre.target, path |-> pre.path],
     store |-> store,
     transitions |-> sm.transitions,
     cached |-> out.cached,
     cachedObj |-> IF out.cached = NoTarget THEN {}
                   ELSE getObjectById(room, out.cached),
     selectionRan |-> out.selectionRan,
     atSelection |-> out.atSelection,
     used |-> out.used,
     result |-> out.result,
     afterDelivery |-> haulObs.phase = "deliver" /\ haulObs.result = <<OK>>,
     bestRank |-> IF phase = "collect" THEN BestCollectRank(room)
                  ELSE BestDeliverRank(room),
     cachedRank |-> IF out.cached = NoTarget THEN 0
                    ELSE IF phase = "collect" THEN CollectRank(room, out.cached)
                    ELSE DeliverRank(room, out.cached),
     usedRank |-> IF out.used = NoTarget THEN 0
                  ELSE IF phase = "collect" THEN CollectRank(room, out.used)
                  ELSE DeliverRank(room, out.used)]

HaulInit ==
    /\ SpawnIdle
    /\ LoopIdle
    /\ SelIdle
    /\ PathIdle
    /\ LaterIdle("none")
    /\ creepMemory = SpawnMemory
    /\ haulObs = [phase |-> "none"]
    /\ Game_time = 1

\* one tick of a hauler: roleHauler.run with the store, the room and the
\* result codes of this tick
roleHauler_run ==
    /\ Game_time <= MaxTime
    /\ \E store \in Stores :
         LET sm == manageState(creepMemory, store)
         IN IF sm.memory.state = "collecting"
            THEN \E room \in HaulCollectRooms :
                 \E found \in findCollectionTarget(room), result \in ActionResults :
                 \E move \in (IF result = ERR_NOT_IN_RANGE /\ creepMemory.path # NoPath
                              THEN MoveResults ELSE {OK}),
                    path \in (IF result = ERR_NOT_IN_RANGE THEN FoundPaths ELSE {<<>>}) :
                   LET out == collect(sm.memory, room, Game_time,
                                      RunInput(found, result, move, path))
                   IN /\ creepMemory' = out.memory
                      /\ haulObs' = RunDigest(creepMemory, store, sm, "collect", room, out)
            ELSE \E room \in HaulDeliverRooms :
                 \E found \in findDeliveryTarget(room), result \in ActionResults :
                 \E move \in (IF result = ERR_NOT_IN_RANGE /\ creepMemory.path # NoPath
                              THEN MoveResults ELSE {OK}),
                    path \in (IF result = ERR_NOT_IN_RANGE THEN FoundPaths ELSE {<<>>}) :
                   LET out == deliver(sm.memory, room, Game_time,
                                      RunInput(found, result, move, path))
                   IN /\ creepMemory' = out.memory
                      /\ haulObs' = RunDigest(creepMemory, store, sm, "deliver", room, out)
    /\ Game_time' = Game_time + 1
    /\ UNCHANGED notHaulVars

HaulNext == roleHauler_run

SpecHauler == HaulInit /\ [][HaulNext]_vars

\* ------------------------------------------------------------ C4, C7, C8

\* C4: the hauler's state changes collecting -> delivering exactly when its
\* free capacity is 0 and delivering -> collecting exactly when it carries no
\* energy; no other change of the state occurs, the state is always one of
\* the two, and each transition deletes the cached target and the cached path.
C4_StateMachine ==
    haulObs.phase # "none" =>
        LET first == haulObs.pre.state = "collecting" /\ haulObs.store.free = 0
            mid == IF first THEN "delivering" ELSE haulObs.pre.state
            second == mid = "delivering" /\ haulObs.store.energy = 0
            last == IF second THEN "collecting" ELSE mid
            expected == (IF first THEN << <<"collecting", "delivering">> >> ELSE <<>>)
                        \o (IF second THEN << <<"delivering", "collecting">> >> ELSE <<>>)
            log == haulObs.transitions
        IN /\ Len(log) = Len(expected)
           /\ \A i \in 1..Len(log) :
                /\ <<log[i].from, log[i].memory.state>> = expected[i]
                /\ log[i].memory.target = NoTarget
                /\ log[i].memory.path = NoPath
           /\ creepMemory.state = last
           /\ creepMemory.state \in {"collecting", "delivering"}

\* a hauler with a cached target and a cached path filled up and became
\* delivering
C4_Witness ==
    /\ haulObs.phase = "deliver"
    /\ haulObs.pre.state = "collecting"
    /\ haulObs.pre.target # NoTarget
    /\ haulObs.pre.path # NoPath
    /\ haulObs.store.free = 0
    /\ haulObs.store.energy > 0
    /\ Len(haulObs.transitions) = 1

C8_ReselectOnlyWhenInvalid ==
    haulObs.phase = "collect" =>
        LET valid == /\ haulObs.cachedObj # {}
                     /\ \A o \in haulObs.cachedObj : o.energy # 0
        IN /\ haulObs.selectionRan <=> ~valid
           /\ valid => /\ haulObs.used = haulObs.cached
                       /\ creepMemory.target = haulObs.cached
           /\ (haulObs.cached # NoTarget /\ ~valid) =>
                haulObs.atSelection = [target |-> NoTarget, path |-> NoPath]

\* a valid cached target was kept although a source of higher priority was
\* in the room
C8_Witness ==
    /\ haulObs.phase = "collect"
    /\ haulObs.cached # NoTarget
    /\ haulObs.cachedObj # {}
    /\ \A o \in haulObs.cachedObj : o.energy # 0
    /\ haulObs.bestRank < haulObs.cachedRank
    /\ creepMemory.target = haulObs.cached
    /\ ~haulObs.selectionRan

\* ------------------------------------------- a creep that moves by path

\* the roles that move along a cached path
PathRoles == {"hauler", "upgrader", "builder", "miner"}

PathInit ==
    /\ SpawnIdle
    /\ LoopIdle
    /\ SelIdle
    /\ HaulIdle
    /\ LaterIdle("none")
    /\ pathMemory \in {[role |-> r, path |-> NoPath, pathAge |-> Undefined] :
                         r \in PathRoles}
    /\ pathObs = [by |-> "none"]
    /\ Game_time = 1

\* what a call of a resolver leaves in pathObs; storedFrom is the path
\* findPathTo returned when the path now stored was stored
CallDigest(moveResult, path, out) ==
    [by |-> pathMemory.role,
     before |-> pathMemory,
     moveResult |-> moveResult,
     found |-> path,
     afterFollow |-> out.afterFollow,
     calls |-> out.calls,
     storedFrom |-> IF out.memory.path = NoPath THEN <<>>
                    ELSE IF \E i \in 1..Len(out.calls) : out.calls[i].call = "findPathTo"
                    THEN path
                    ELSE pathObs.storedFrom,
     time |-> Game_time]

\* a tick in which the hauler is out of range of its target
HaulerMoves ==
    /\ Game_time <= MaxTime
    /\ pathMemory.role = "hauler"
    /\ \E moveResult \in (IF pathMemory.path # NoPath THEN MoveResults ELSE {OK}),
          path \in FoundPaths :
         LET out == roleHauler_moveToTarget(pathMemory, Game_time, moveResult, path)
         IN /\ pathMemory' = out.memory
            /\ pathObs' = CallDigest(moveResult, path, out)
    /\ Game_time' = Game_time + 1
    /\ UNCHANGED notPathVars

\* a tick in which the upgrader is out of range of its target
UpgraderMoves ==
    /\ Game_time <= MaxTime
    /\ pathMemory.role = "upgrader"
    /\ \E moveResult \in (IF pathMemory.path # NoPath THEN MoveResults ELSE {OK}),
          path \in FoundPaths :
         LET out == roleUpgrader_moveToTarget(pathMemory, Game_time, moveResult, path)
         IN /\ pathMemory' = out.memory
            /\ pathObs' = CallDigest(moveResult, path, out)
    /\ Game_time' = Game_time + 1
    /\ UNCHANGED notPathVars

\* a tick in which the builder is out of range of its target
BuilderMoves ==
    /\ Game_time <= MaxTime
    /\ pathMemory.role = "builder"
    /\ \E moveResult \in (IF pathMemory.path # NoPath THEN MoveResults ELSE {OK}),
          path \in FoundPaths :
         LET out == roleBuilder_moveToTarget(pathMemory, Game_time, moveResult, path)
         IN /\ pathMemory' = out.memory
            /\ pathObs' = CallDigest(moveResult, path, out)
    /\ Game_time' = Game_time + 1
    /\ UNCHANGED notPathVars

\* a tick in which the miner is out of range of its source
MinerMoves ==
    /\ Game_time <= MaxTime
    /\ pathMemory.role = "miner"
    /\ \E moveResult \in (IF pathMemory.path # NoPath THEN MoveResults ELSE {OK}),
          path \in FoundPaths :
         LET out == roleMiner_moveToSource(pathMemory, Game_time, moveResult, path)
         IN /\ pathMemory' = out.memory
            /\ pathObs' = CallDigest(moveResult, path, out)
    /\ Game_time' = Game_time + 1
    /\ UNCHANGED notPathVars

\* a tick in which the creep is in range and its resolver is not called
InRangeTick ==
    /\ Game_time <= MaxTime
    /\ pathMemory.role \in PathRoles
    /\ Game_time' = Game_time + 1
    /\ UNCHANGED <<pathMemory, pathObs>>
    /\ UNCHANGED notPathVars

PathNext ==
    \/ HaulerMoves
    \/ UpgraderMoves
    \/ BuilderMoves
    \/ MinerMoves
    \/ InRangeTick

SpecPath == PathInit /\ [][PathNext]_vars

\* ------------------------------------------------------------ C9, C10

\* following the cached path failed in the last call
FollowFailed ==
    /\ pathObs.by # "none"
    /\ pathObs.before.path # NoPath
    /\ pathObs.moveResult \in {ERR_NOT_FOUND, ERR_INVALID_ARGS}

\* the path computations of the last call
Computations ==
    Cardinality({i \in 1..Len(pathObs.calls) : pathObs.calls[i].call = "findPathTo"})

\* C9: in every role's movement resolver, when following the cached path
\* fails with not-found or invalid-args the cached path is deleted in that
\* call and exactly one path computation is made in that call; no call makes
\* more than one path computation or repeats a step, whatever the results.
C9_InvalidationRecomputesOnce ==
    pathObs.by # "none" =>
        /\ FollowFailed =>
             /\ pathObs.afterFollow.path = NoPath
             /\ Computations = 1
             /\ pathMemory.path = SerializePath(pathObs.found)
        /\ Computations <= 1
        /\ Len(pathObs.calls) <= 3

\* following the cached path failed, the path was deleted, computed anew and
\* followed
C9_Witness ==
    /\ FollowFailed
    /\ [i \in 1..Len(pathObs.calls) |-> pathObs.calls[i].call]
         = <<"moveByPath", "findPathTo", "moveByPath">>
    /\ pathMemory.path # NoPath

\* C10: after following a cached path failed, the pathAge of the record is
\* the tick of the new computation or absent, also when the new path is
\* empty; a record never holds the pathAge of a path that has been deleted.
C10_NoStalePathAge ==
    /\ FollowFailed => pathMemory.pathAge \in {Undefined, pathObs.time}
    /\ pathMemory.path = NoPath => pathMemory.pathAge = Undefined

\* ------------------------------------------------------------ C11

\* C11: once a path is stored, a call of a resolver in which following the
\* stored path does not fail with not-found or invalid-args follows exactly
\* the steps that were stored, computes no path, and leaves the stored path
\* and its pathAge as they were.
C11_StoredPathFollowed ==
    pathObs.by # "none" =>
        /\ pathMemory.path # NoPath =>
             DeserializePath(pathMemory.path) = pathObs.storedFrom
        /\ (pathObs.before.path # NoPath /\ ~FollowFailed) =>
             /\ pathObs.calls = <<Call("moveByPath", pathObs.storedFrom)>>
             /\ Computations = 0
             /\ pathMemory.path = pathObs.before.path
             /\ pathMemory.pathAge = pathObs.before.pathAge

\* a path stored in an earlier tick was followed and kept
C11_Witness ==
    /\ pathObs.by # "none"
    /\ pathObs.before.path # NoPath
    /\ pathObs.moveResult = OK
    /\ pathObs.storedFrom # <<>>
    /\ pathObs.calls = <<Call("moveByPath", pathObs.storedFrom)>>
    /\ pathObs.before.pathAge < pathObs.time

\* ------------------------------------------------------ memory manager

CleanDeadEvery == 10

CleanPathsEvery == 100

DefaultMaxAge == 1000

MaxStaleTime == 1200

\* the parts of the state of the earlier sections, all idle
EarlierIdle ==
    /\ SpawnIdle
    /\ LoopIdle
    /\ SelIdle
    /\ HaulIdle
    /\ PathIdle

\* a cleanup of the dead that drops the records of the living too
cleanDeadCreeps_DropAll(memory, live) ==
    [n \in {} |-> memory[n]]

\* memoryManager.cleanDeadCreeps: live is the set of names of Game.creeps
cleanDeadCreeps(memory, live) ==
    [n \in {x \in DOMAIN memory : x \in live} |-> memory[n]]

\* memoryManager.cleanOldPaths
cleanOldPaths(memory, time, maxAge) ==
    [n \in DOMAIN memory |->
        IF /\ memory[n].path # NoPath
           /\ memory[n].pathAge # Undefined
           /\ time - memory[n].pathAge > maxAge
        THEN [memory[n] EXCEPT !.path = NoPath, !.pathAge = Undefined]
        ELSE memory[n]]

\* a cleanup that looks at the paths every 1000 ticks only
runCleanup_RarePaths(memory, live, time) ==
    LET m1 == IF time % CleanDeadEvery = 0 THEN cleanDeadCreeps(memory, live)
              ELSE memory
        m2 == IF time % 1000 = 0 THEN cleanOldPaths(m1, time, DefaultMaxAge)
              ELSE m1
    IN [afterDead |-> m1, memory |-> m2]

\* memoryManager.runCleanup, as far as Memory.creeps goes: the records after
\* the dead creeps are removed, and after the old paths are removed too
runCleanup(memory, live, time) ==
    LET m1 == IF time % CleanDeadEvery = 0 THEN cleanDeadCreeps(memory, live)
              ELSE memory
        m2 == IF time % CleanPathsEvery = 0
              THEN cleanOldPaths(m1, time, DefaultMaxAge)
              ELSE m1
    IN [afterDead |-> m1, memory |-> m2]

\* what a tick leaves in memObs
CleanupDigest(cleanup) ==
    [time |-> Game_time, live |-> Game_creeps, before |-> Memory_creeps,
     afterDead |-> cleanup.afterDead, cleaned |-> cleanup.memory]

\* the record a creep is spawned with, as far as the path cache goes
FreshRecord(role) == [role |-> role, path |-> NoPath, pathAge |-> Undefined]

\* one upgrader that lives through all the ticks looked at
StaleInit ==
    /\ EarlierIdle
    /\ LaterIdle("memory")
    /\ Game_time = 1
    /\ Game_creeps = {"c1"}
    /\ Memory_creeps = [n \in {"c1"} |-> FreshRecord("upgrader")]
    /\ memObs = [time |-> 0]

\* one tick of the loop of main.js: the cleanup runs first, then the role
\* logic of the creep, which is in range of its target or calls its resolver
StaleTick ==
    /\ Game_time <= MaxStaleTime
    /\ LET cleanup == runCleanup(Memory_creeps, Game_creeps, Game_time)
           cleaned == cleanup.memory
       IN /\ \E after \in {cleaned} \cup
                  {[cleaned EXCEPT !["c1"] =
                       roleUpgrader_moveToTarget(cleaned["c1"], Game_time,
                                                 moveResult, path).memory] :
                     moveResult \in {OK, ERR_NOT_FOUND},
                     path \in {<<>>, <<1>>}} :
                Memory_creeps' = after
          /\ memObs' = CleanupDigest(cleanup)
    /\ Game_time' = Game_time + 1
    /\ UNCHANGED Game_creeps
    /\ UNCHANGED notMemVars

StaleNext == StaleTick

SpecStaleness == StaleInit /\ [][StaleNext]_vars

\* ------------------------------------------------------------ C12

\* C12: on every tick that is a multiple of 100 the cleanup deletes path and
\* pathAge of every record whose path is more than 1000 ticks old, followed
\* or not; no record ever holds a cached path older than 1100 ticks.
C12_PathStalenessBound ==
    /\ (memObs.time # 0 /\ memObs.time % 100 = 0) =>
         \A n \in DOMAIN memObs.before :
            (/\ memObs.before[n].path # NoPath
             /\ memObs.before[n].pathAge # Undefined
             /\ memObs.time - memObs.before[n].pathAge > 1000)
            => /\ memObs.cleaned[n].path = NoPath
               /\ memObs.cleaned[n].pathAge = Undefined
    /\ \A n \in DOMAIN Memory_creeps :
         Memory_creeps[n].path # NoPath =>
            Game_time - Memory_creeps[n].pathAge <= 1100

\* a path that was 1100 ticks old was deleted by the cleanup
C12_Witness ==
    /\ memObs.time # 0
    /\ \E n \in DOMAIN memObs.before :
         /\ memObs.before[n].path # NoPath
         /\ memObs.time - memObs.before[n].pathAge = 1100
         /\ memObs.cleaned[n].path = NoPath
         /\ memObs.cleaned[n].pathAge = Undefined

\* ------------------------------------------- records of dead creeps

MaxReconcileTime == 21

CreepNames == {"c1", "c2"}

\* what a tick leaves in memObs; gone holds, for every record whose creep is
\* not in Game.creeps of the next tick, the first tick it was missing
ReconcileDigest(cleanup, gone) ==
    [time |-> Game_time, live |-> Game_creeps, before |-> Memory_creeps,
     afterDead |-> cleanup.afterDead, cleaned |-> cleanup.memory,
     gone |-> gone]

ReconcileInit ==
    /\ EarlierIdle
    /\ LaterIdle("memory")
    /\ Game_time = 1
    /\ Game_creeps = {}
    /\ Memory_creeps = <<>>
    /\ memObs = [time |-> 0, gone |-> <<>>]

\* one tick of the loop of main.js: the cleanup runs first; a spawn may then
\* start a creep, whose record is written at once, and a live creep may call
\* its resolver; creeps may be dead in the next tick
ReconcileTick ==
    /\ Game_time <= MaxReconcileTime
    /\ LET cleanup == runCleanup(Memory_creeps, Game_creeps, Game_time)
           cleaned == cleanup.memory
           free == CreepNames \ (DOMAIN cleaned \cup Game_creeps)
           moved == {cleaned} \cup
                    {[cleaned EXCEPT ![n] =
                         roleUpgrader_moveToTarget(cleaned[n], Game_time, OK,
                                                   <<1>>).memory] :
                       n \in DOMAIN cleaned \cap Game_creeps}
       IN \E after \in moved, born \in {{}} \cup {{n} : n \in free},
             died \in SUBSET Game_creeps :
            LET memory == [n \in DOMAIN after \cup born |->
                              IF n \in born THEN FreshRecord("upgrader")
                              ELSE after[n]]
                live == (Game_creeps \ died) \cup born
            IN /\ Memory_creeps' = memory
               /\ Game_creeps' = live
               /\ memObs' = ReconcileDigest(cleanup,
                     [n \in DOMAIN memory \ live |->
                         IF n \in DOMAIN memObs.gone THEN memObs.gone[n]
                         ELSE Game_time + 1])
    /\ Game_time' = Game_time + 1
    /\ UNCHANGED notMemVars

ReconcileNext == ReconcileTick

SpecReconcile == ReconcileInit /\ [][ReconcileNext]_vars

\* ------------------------------------------------------------ C14

MaxCacheTime == 12

DefaultTtl == 10

CacheKeys == {"k1", "k2"}

CacheData == {"a", "b"}

\* the ttl argument of getCached: left out, or a number of ticks
TtlArgs == {<<>>, <<0>>, <<1>>, <<2>>}

\* getCached with an entry still served when it is exactly ttl ticks old
getCached_Inclusive(cache, key, ttlArg, time) ==
    LET ttl == IF ttlArg = <<>> THEN DefaultTtl ELSE ttlArg[1]
        entries == IF cache.defined THEN cache.entries ELSE <<>>
    IN [cache |-> [defined |-> TRUE, entries |-> entries],
        returned |-> IF key \in DOMAIN entries /\ time - entries[key].time <= ttl
                     THEN entries[key].data
                     ELSE "null"]

\* memoryManager.getCached: the cache it leaves and what it returns
getCached(cache, key, ttlArg, time) ==
    LET ttl == IF ttlArg = <<>> THEN DefaultTtl ELSE ttlArg[1]
        entries == IF cache.defined THEN cache.entries ELSE <<>>
    IN [cache |-> [defined |-> TRUE, entries |-> entries],
        returned |-> IF key \in DOMAIN entries /\ time - entries[key].time < ttl
                     THEN entries[key].data
                     ELSE "null"]

\* memoryManager.setCached
setCached(cache, key, data, time) ==
    LET entries == IF cache.defined THEN cache.entries ELSE <<>>
    IN [defined |-> TRUE,
        entries |-> [k \in DOMAIN entries \cup {key} |->
                        IF k = key THEN [data |-> data, time |-> time]
                        ELSE entries[k]]]

\* memoryManager.clearCache
clearCache == [defined |-> TRUE, entries |-> <<>>]

\* what a call leaves in cacheObs; cleared holds the keys that were not set
\* since the last clearCache
CacheDigest(op, key, ttlArg, data, returned, cleared) ==
    [op |-> op, key |-> key, ttlArg |-> ttlArg, data |-> data,
     returned |-> returned, before |-> global_cache, time |-> Game_time,
     cleared |-> cleared]

Cleared == IF cacheObs.op = "none" THEN {} ELSE cacheObs.cleared

CacheInit ==
    /\ EarlierIdle
    /\ LaterIdle("cache")
    /\ Game_time = 1
    /\ global_cache = [defined |-> FALSE, entries |-> <<>>]
    /\ cacheObs = [op |-> "none"]

CallGetCached ==
    /\ \E key \in CacheKeys, ttlArg \in TtlArgs :
         LET out == getCached(global_cache, key, ttlArg, Game_time)
         IN /\ global_cache' = out.cache
            /\ cacheObs' = CacheDigest("getCached", key, ttlArg, "null",
                                       out.returned, Cleared)
    /\ UNCHANGED Game_time
    /\ UNCHANGED notCacheVars

CallSetCached ==
    /\ \E key \in CacheKeys, data \in CacheData :
         /\ global_cache' = setCached(global_cache, key, data, Game_time)
         /\ cacheObs' = CacheDigest("setCached", key, <<>>, data, "null",
                                    Cleared \ {key})
    /\ UNCHANGED Game_time
    /\ UNCHANGED notCacheVars

CallClearCache ==
    /\ global_cache' = clearCache
    /\ cacheObs' = CacheDigest("clearCache", "k1", <<>>, "null", "null", CacheKeys)
    /\ UNCHANGED Game_time
    /\ UNCHANGED notCacheVars

\* the tick ends; the global object may be lost between two ticks
CacheTick ==
    /\ Game_time < MaxCacheTime
    /\ Game_time' = Game_time + 1
    /\ \/ UNCHANGED global_cache
       \/ global_cache' = [defined |-> FALSE, entries |-> <<>>]
    /\ UNCHANGED cacheObs
    /\ UNCHANGED notCacheVars

CacheNext ==
    \/ CallGetCached
    \/ CallSetCached
    \/ CallClearCache
    \/ CacheTick

SpecCache == CacheInit /\ [][CacheNext]_vars

\* ------------------------------------------------------------ C13

\* C13: getCached(key, ttl) returns the stored data if and only if an entry
\* for key exists and Game.time - entry.time < ttl, and null otherwise; a
\* read removes and changes no entry; setCached stamps the entry with the
\* current tick; after clearCache every key is absent until it is set again.
C13_LogicalExpiry ==
    cacheObs.op # "none" =>
        LET before == IF cacheObs.before.defined THEN cacheObs.before.entries
                      ELSE <<>>
            key == cacheObs.key
            ttl == IF cacheObs.ttlArg = <<>> THEN 10 ELSE cacheObs.ttlArg[1]
            fresh == key \in DOMAIN before /\ cacheObs.time - before[key].time < ttl
        IN /\ cacheObs.op = "getCached" =>
                /\ fresh => cacheObs.returned = before[key].data
                /\ ~fresh => cacheObs.returned = "null"
                /\ (cacheObs.time = Game_time /\ cacheObs.before.defined)
                      => global_cache.entries = before
           /\ (cacheObs.op = "setCached" /\ cacheObs.time = Game_time) =>
                /\ global_cache.entries[key] = [data |-> cacheObs.data,
                                                time |-> cacheObs.time]
                /\ \A k \in DOMAIN before \ {key} :
                      global_cache.entries[k] = before[k]
           /\ \A k \in cacheObs.cleared : k \notin DOMAIN global_cache.entries

\* a read one tick before the expiry returned the data stored earlier
C13_Witness ==
    /\ cacheObs.op = "getCached"
    /\ cacheObs.ttlArg = <<2>>
    /\ cacheObs.key \in DOMAIN global_cache.entries
    /\ cacheObs.time - global_cache.entries[cacheObs.key].time = 1
    /\ cacheObs.returned = global_cache.entries[cacheObs.key].data

\* ------------------------------------------------------------ miner role

\* ticks of role logic looked at for one creep
MaxRoleTicks == 3

ERR_NOT_ENOUGH_RESOURCES == -6

\* the name under which the miner's record is kept in Memory.creeps
MinerName == "Miner1"

\* the container findContainer returns, if any: hits on both sides of
\* hitsMax * 0.9, full or not
MinerContainers ==
    {<<>>} \cup {<<[hits |-> h, hitsMax |-> 100, free |-> f]>> :
                   h \in {89, 90}, f \in {0, 100}}

\* what a miner finds in a tick: whether its source id resolves, whether it
\* is adjacent to the source, the container and the container site next to
\* it, its own store, the spawns and extensions next to it that have room,
\* and the result codes of harvest and moveByPath
MinerWorlds ==
    {[resolves |-> FALSE, near |-> FALSE, container |-> <<>>, site |-> FALSE,
      store |-> [free |-> 0, energy |-> 0], nearby |-> 0,
      harvestResult |-> OK, moveResult |-> OK, path |-> <<>>]}
    \cup
    {[resolves |-> TRUE, near |-> FALSE, container |-> <<>>, site |-> FALSE,
      store |-> [free |-> 0, energy |-> 0], nearby |-> 0,
      harvestResult |-> OK, moveResult |-> r, path |-> p] :
        r \in {OK, ERR_NOT_FOUND, -11}, p \in {<<>>, <<1>>}}
    \cup
    {[resolves |-> TRUE, near |-> TRUE, container |-> c, site |-> s,
      store |-> st, nearby |-> n,
      harvestResult |-> h, moveResult |-> OK, path |-> <<>>] :
        c \in MinerContainers, s \in BOOLEAN, st \in Stores, n \in {0, 1},
        h \in {OK, ERR_NOT_ENOUGH_RESOURCES}}

\* container.hits < container.hitsMax * 0.9
BelowNinety(container) == container.hits * 10 < container.hitsMax * 9

\* the miner's run with the source id dropped when it does not resolve
roleMiner_run_Forget(memory, world, time) ==
    IF memory.sourceId = Undefined
    THEN [memory |-> memory, calls |-> <<>>, log |-> "no assigned source"]
    ELSE IF ~world.resolves
    THEN [memory |-> [memory EXCEPT !.sourceId = Undefined], calls |-> <<>>,
          log |-> "cannot find source"]
    ELSE IF ~world.near
    THEN LET out == roleMiner_moveToSource(memory, time, world.moveResult, world.path)
         IN [memory |-> out.memory, calls |-> out.calls, log |-> "none"]
    ELSE [memory |-> memory, calls |-> <<Call("harvest", <<>>)>>, log |-> "none"]

\* roleMiner.run: the record it leaves, the calls it makes on the creep in
\* order, and the line it logs
roleMiner_run(memory, world, time) ==
    IF memory.sourceId = Undefined
    THEN [memory |-> memory, calls |-> <<>>, log |-> "no assigned source"]
    ELSE IF ~world.resolves
    THEN [memory |-> memory, calls |-> <<>>, log |-> "cannot find source"]
    ELSE IF ~world.near
    THEN LET out == roleMiner_moveToSource(memory, time, world.moveResult, world.path)
         IN [memory |-> out.memory, calls |-> out.calls, log |-> "none"]
    ELSE LET container == world.container
             repair ==
                IF /\ container # <<>>
                   /\ BelowNinety(container[1])
                   /\ world.store.energy > 0
                THEN <<Call("repair", <<>>)>>
                ELSE <<>>
             build ==
                IF container = <<>> /\ world.site /\ world.store.energy > 0
                THEN <<Call("build", <<>>)>>
                ELSE <<>>
             harvest == <<Call("harvest", <<>>)>>
             transfer ==
                IF /\ container # <<>>
                   /\ container[1].free = 0
                   /\ world.store.free = 0
                   /\ world.nearby > 0
                THEN <<Call("transfer", <<>>)>>
                ELSE <<>>
         IN [memory |-> memory,
             calls |-> repair \o build \o harvest \o transfer,
             log |-> "none"]

\* the record the scheduler writes for a miner, and the same record later in
\* the miner's life, with a path cached long ago
MinerRecords ==
    {[role |-> "miner", sourceId |-> s, path |-> NoPath, pathAge |-> Undefined] :
        s \in 1..NumSources}

MinerStarts ==
    {[time |-> 1, record |-> r] : r \in MinerRecords}
    \cup
    {[time |-> 1099,
      record |-> [r EXCEPT !.path = SerializePath(<<5>>), !.pathAge = 98]] :
        r \in MinerRecords}

\* what a tick leaves in roleObs
MinerDigest(world, cleaned, out) ==
    [by |-> "miner", ticks |-> roleObs.ticks + 1, assigned |-> roleObs.assigned,
     time |-> Game_time, world |-> world, before |-> creepRecord,
     cleaned |-> cleaned, calls |-> out.calls, log |-> out.log]

MinerInit ==
    /\ EarlierIdle
    /\ LaterIdle("role")
    /\ \E start \in MinerStarts :
         /\ Game_time = start.time
         /\ creepRecord = start.record
         /\ roleObs = [by |-> "spawn", ticks |-> 0,
                       assigned |-> start.record.sourceId]

\* one tick of the loop of main.js for a live miner: the cleanup, then
\* roleMiner.run
MinerTick ==
    /\ roleObs.ticks < MaxRoleTicks
    /\ \E world \in MinerWorlds :
         LET cleanup == runCleanup([n \in {MinerName} |-> creepRecord],
                                   {MinerName}, Game_time)
             cleaned == cleanup.memory[MinerName]
             out == roleMiner_run(cleaned, world, Game_time)
         IN /\ creepRecord' = out.memory
            /\ roleObs' = MinerDigest(world, cleaned, out)
    /\ Game_time' = Game_time + 1
    /\ UNCHANGED notRoleVars

MinerNext == MinerTick

SpecMiner == MinerInit /\ [][MinerNext]_vars

\* the calls of the last run that came back OK, each of which leaves an
\* intent: a moveByPath on the cached path returns the tick's move result,
\* harvest the tick's harvest result, and every other call is made after the
\* code has tested what it needs
Intents ==
    LET calls == roleObs.calls
        followedFirst ==
            /\ roleObs.cleaned.path # NoPath
            /\ Len(calls) > 0
            /\ calls[1].call = "moveByPath"
    IN {i \in 1..Len(calls) :
          /\ calls[i].call # "findPathTo"
          /\ (i = 1 /\ followedFirst) => roleObs.world.moveResult = OK
          /\ calls[i].call = "harvest" => roleObs.world.harvestResult = OK}

\* ------------------------------------------------------------ C15

\* C15: in every tick in which a creep's role logic runs, the role logic
\* issues exactly one action intent for that creep, never zero and never two
\* or more.
C15_ExactlyOneIntent ==
    roleObs.by = "miner" => Cardinality(Intents) = 1

\* ------------------------------------------------------------ C16

\* C16: the sourceId written into a miner's record when it is produced is
\* never changed or removed by a later tick of cleanup and role logic while
\* the miner is alive, also when the source id does not resolve.
C16_SourceIdFixed ==
    creepRecord.role = "miner" =>
        /\ creepRecord.sourceId = roleObs.assigned
        /\ creepRecord.sourceId \in 1..NumSources

\* the cleanup has removed the miner's old path, the source id has not
\* resolved, and the record still names the source
C16_Witness ==
    /\ roleObs.by = "miner"
    /\ roleObs.ticks >= 2
    /\ ~roleObs.world.resolves
    /\ roleObs.before.path # NoPath
    /\ roleObs.cleaned.path = NoPath
    /\ creepRecord.sourceId = roleObs.assigned

\* ------------------------------------------------------------ C18

\* C18: a miner adjacent to its source calls the first applicable of repair
\* (container below 90% of its hits and energy carried), build (no container,
\* a container site, energy carried) and harvest, and no tick in which it
\* repairs or builds also harvests.
C18_ExclusiveTasks ==
    (roleObs.by = "miner" /\ roleObs.world.resolves /\ roleObs.world.near) =>
        LET names == {roleObs.calls[i].call : i \in 1..Len(roleObs.calls)}
        IN ("repair" \in names \/ "build" \in names) => "harvest" \notin names

\* ------------------------------------------- the spawns of a room in a tick

\* spawns of the room
NumSpawns == 2

\* ticks of the loop looked at
MaxFleetTime == 6

ERR_NAME_EXISTS == -3

\* the room as getSpawnPriority sees it in this tick: the creeps are those
\* room.find returns, which the creeps requested in this tick are not among
FleetRoom ==
    [creeps |-> roomCreeps,
     sourceIds |-> fleetRoom.sourceIds,
     level |-> fleetRoom.level,
     constructionSites |-> fleetRoom.constructionSites,
     minerals |-> fleetRoom.minerals,
     containers |-> fleetRoom.containers]

\* priority.role.charAt(0).toUpperCase() + priority.role.slice(1) + Game.time
CreepName(role, time) == <<role, time>>

\* a spawnCreep that accepts a name already given in this tick
spawnCreep_AnyName(name, created) == {OK, ERR_NOT_ENOUGH_ENERGY}

\* the results spawn.spawnCreep(body, name, {memory}) can have on an idle
\* spawn: a name given to an accepted spawnCreep earlier in this tick is
\* refused, as is the name of a live creep (names end in the tick's number,
\* so no creep of an earlier tick has it)
spawnCreep(name, created) ==
    IF name \in created THEN {ERR_NAME_EXISTS}
    ELSE {OK, ERR_NOT_ENOUGH_ENERGY}

\* a room with one hauler alive and its spawns idle (from an empty room the
\* ladder asks for harvesters only)
FleetInit ==
    /\ EarlierIdle
    /\ LaterIdle("fleet")
    /\ Game_time = 1
    /\ fleetRoom \in
         [sourceIds : {[i \in 1..n |-> i] : n \in 1..NumSources},
          level : {8},
          constructionSites : {0},
          minerals : {<<>>},
          containers : {<<>>}]
    /\ roomCreeps =
         [k \in Kinds |-> IF k.role = "hauler" THEN 1 ELSE 0]
    /\ createdCreeps = [k \in Kinds |-> 0]
    /\ createdNames = {}
    /\ busySpawns = [i \in 1..NumSpawns |-> 0]
    /\ spawnPos = 1
    /\ fleetObs = [role |-> "none"]

\* main.js, for (var spawn of spawns) spawnManager.run(spawn): the run of
\* the spawn the loop is at
spawnManager_run_OfLoop ==
    /\ spawnPos \in 1..NumSpawns
    /\ IF busySpawns[spawnPos] > 0
       THEN /\ fleetObs' = [role |-> "none"]
            /\ UNCHANGED <<createdCreeps, createdNames, busySpawns>>
       ELSE LET priority == getSpawnPriority(FleetRoom)
                name == CreepName(priority.role, Game_time)
            IN IF priority = Null
               THEN /\ fleetObs' = [role |-> "none"]
                    /\ UNCHANGED <<createdCreeps, createdNames, busySpawns>>
               ELSE \E result \in spawnCreep(name, createdNames) :
                      /\ result = OK =>
                           (priority.role = "harvester" =>
                               CountRole(roomCreeps, "harvester") < MaxHarvesters)
                      /\ fleetObs' =
                           [role |-> priority.role, result |-> result,
                            sourceId |-> priority.memory.sourceId,
                            spawn |-> spawnPos, census |-> roomCreeps,
                            sourceIds |-> fleetRoom.sourceIds]
                      /\ IF result = OK
                         THEN /\ createdCreeps' =
                                   IF priority.memory \in Kinds
                                   THEN [createdCreeps EXCEPT ![priority.memory] = @ + 1]
                                   ELSE createdCreeps
                              /\ createdNames' = createdNames \cup {name}
                              /\ busySpawns' = [busySpawns EXCEPT ![spawnPos] = 2]
                         ELSE UNCHANGED <<createdCreeps, createdNames, busySpawns>>
    /\ spawnPos' = spawnPos + 1
    /\ UNCHANGED <<fleetRoom, roomCreeps, Game_time>>
    /\ UNCHANGED notFleetVars

\* the tick ends: the creeps requested in it are found by room.find from the
\* next tick on, a creep may have died, a spawn busy for a tick at least may
\* have finished
FleetTickEnds ==
    /\ spawnPos = NumSpawns + 1
    /\ Game_time < MaxFleetTime
    /\ \E dies \in {k \in Kinds : roomCreeps[k] > 0} \cup {Null} :
         roomCreeps' =
            [k \in Kinds |->
                roomCreeps[k] + createdCreeps[k] - (IF k = dies THEN 1 ELSE 0)]
    /\ \E done \in SUBSET {i \in 1..NumSpawns : busySpawns[i] = 1} :
         busySpawns' =
            [i \in 1..NumSpawns |->
                IF busySpawns[i] = 2 THEN 1
                ELSE IF i \in done THEN 0
                ELSE busySpawns[i]]
    /\ createdCreeps' = [k \in Kinds |-> 0]
    /\ createdNames' = {}
    /\ spawnPos' = 1
    /\ Game_time' = Game_time + 1
    /\ UNCHANGED <<fleetRoom, fleetObs>>
    /\ UNCHANGED notFleetVars

FleetNext ==
    \/ spawnManager_run_OfLoop
    \/ FleetTickEnds

SpecFleet == FleetInit /\ [][FleetNext]_vars

\* ------------------------------------------------------------ C17

\* the miners of the room that hold source s: those room.find returns and
\* those requested in this tick
MinersOf(s) ==
    roomCreeps[[role |-> "miner", sourceId |-> s]]
    + createdCreeps[[role |-> "miner", sourceId |-> s]]

MaxWorkerTicks == 2

\* the memory an upgrader and a builder are spawned with is {role}: the
\* flags upgrading and building are undefined then, which every test of the
\* two roles reads as false
UpgraderMemory ==
    [role |-> "upgrader", upgrading |-> FALSE, path |-> NoPath, pathAge |-> Undefined]

BuilderMemory ==
    [role |-> "builder", building |-> FALSE, target |-> NoTarget,
     path |-> NoPath, pathAge |-> Undefined]

\* linkManager.getControllerLink(room): null, or the link with its energy
ControllerLinks == {<<>>, <<[energy |-> 0]>>, <<[energy |-> 800]>>}

\* the containers and the storage of the room of an upgrader or a builder
RefillStructures ==
    {{}, {Obj(<<"container", 1>>, 500, 2000, 1500, FALSE)}}
    \cup {{Obj(<<"container", 1>>, 0, 2000, 2000, TRUE),
           Obj(<<"container", 2>>, 500, 2000, 1500, TRUE),
           Obj(<<"storage", 1>>, 500, 2000, 1500, r)} : r \in BOOLEAN}

\* what an upgrader or a builder finds in a tick: its store, the controller
\* link, the containers and the storage, the number of sources of the room,
\* the result of the action it calls, and, when that is ERR_NOT_IN_RANGE,
\* what its resolver meets
WorkerWorlds ==
    {[store |-> st, link |-> l, structures |-> s, sources |-> n,
      actionResult |-> m[1], moveResult |-> m[2], path |-> m[3]] :
        st \in Stores, l \in ControllerLinks, s \in RefillStructures, n \in {0, 1},
        m \in {<<OK, OK, <<>> >>,
               <<ERR_NOT_IN_RANGE, OK, <<1>> >>,
               <<ERR_NOT_IN_RANGE, ERR_NOT_FOUND, <<>> >>}}

\* the construction sites of the room, by structure type
SiteLists == {<<>>, <<"road", "spawn">>, <<"lab">>}

\* the filter of both collectEnergy: containers and storage holding energy
HoldingEnergy(structures) ==
    {s \in structures : s.type \in {"container", "storage"} /\ s.energy > 0}

\* the two tests at the top of roleUpgrader.run: the record they leave and
\* the switches made, in order
roleUpgrader_manageState(memory, store) ==
    LET first == memory.upgrading /\ store.energy = 0
        m1 == IF first
              THEN [memory EXCEPT !.upgrading = FALSE, !.path = NoPath]
              ELSE memory
        second == ~m1.upgrading /\ store.free = 0
        m2 == IF second
              THEN [m1 EXCEPT !.upgrading = TRUE, !.path = NoPath]
              ELSE m1
    IN [memory |-> m2,
        transitions |-> (IF first THEN <<"refilling">> ELSE <<>>)
                        \o (IF second THEN <<"acting">> ELSE <<>>)]

\* the two tests at the top of roleBuilder.run
roleBuilder_manageState(memory, store) ==
    LET first == memory.building /\ store.energy = 0
        m1 == IF first
              THEN [memory EXCEPT !.building = FALSE, !.path = NoPath,
                                  !.target = NoTarget]
              ELSE memory
        second == ~m1.building /\ store.free = 0
        m2 == IF second
              THEN [m1 EXCEPT !.building = TRUE, !.path = NoPath,
                              !.target = NoTarget]
              ELSE m1
    IN [memory |-> m2,
        transitions |-> (IF first THEN <<"refilling">> ELSE <<>>)
                        \o (IF second THEN <<"acting">> ELSE <<>>)]

\* if (creep.<action>(target) == ERR_NOT_IN_RANGE) this.moveToTarget(creep, target)
roleUpgrader_actOrMove(memory, action, world, time) ==
    IF world.actionResult = ERR_NOT_IN_RANGE
    THEN LET moved == roleUpgrader_moveToTarget(memory, time, world.moveResult, world.path)
         IN [memory |-> moved.memory, calls |-> <<Call(action, <<>>)>> \o moved.calls]
    ELSE [memory |-> memory, calls |-> <<Call(action, <<>>)>>]

roleBuilder_actOrMove(memory, action, world, time) ==
    IF world.actionResult = ERR_NOT_IN_RANGE
    THEN LET moved == roleBuilder_moveToTarget(memory, time, world.moveResult, world.path)
         IN [memory |-> moved.memory, calls |-> <<Call(action, <<>>)>> \o moved.calls]
    ELSE [memory |-> memory, calls |-> <<Call(action, <<>>)>>]

\* what a run that does not collect energy reports as its refill source
NotRefilling == <<"none">>

\* the upgrader's collectEnergy with the containers tried before the link
roleUpgrader_collectEnergy_ContainerFirst(memory, world, found, time) ==
    IF found # NoTarget
    THEN LET out == roleUpgrader_actOrMove(memory, "withdraw", world, time)
         IN [memory |-> out.memory, calls |-> out.calls, refill |-> found]
    ELSE IF world.link # <<>> /\ world.link[1].energy > 0
    THEN LET out == roleUpgrader_actOrMove(memory, "withdraw", world, time)
         IN [memory |-> out.memory, calls |-> out.calls, refill |-> <<"link">>]
    ELSE IF world.sources > 0
    THEN LET out == roleUpgrader_actOrMove(memory, "harvest", world, time)
         IN [memory |-> out.memory, calls |-> out.calls, refill |-> <<"source">>]
    ELSE [memory |-> memory, calls |-> <<>>, refill |-> NotRefilling]

\* roleUpgrader.collectEnergy: found is what findClosestByPath returns when
\* it is called
roleUpgrader_collectEnergy(memory, world, found, time) ==
    IF world.link # <<>> /\ world.link[1].energy > 0
    THEN LET out == roleUpgrader_actOrMove(memory, "withdraw", world, time)
         IN [memory |-> out.memory, calls |-> out.calls, refill |-> <<"link">>]
    ELSE IF found # NoTarget
    THEN LET out == roleUpgrader_actOrMove(memory, "withdraw", world, time)
         IN [memory |-> out.memory, calls |-> out.calls, refill |-> found]
    ELSE IF world.sources > 0
    THEN LET out == roleUpgrader_actOrMove(memory, "harvest", world, time)
         IN [memory |-> out.memory, calls |-> out.calls, refill |-> <<"source">>]
    ELSE [memory |-> memory, calls |-> <<>>, refill |-> NotRefilling]

\* roleBuilder.collectEnergy
roleBuilder_collectEnergy(memory, world, found, time) ==
    IF found # NoTarget
    THEN LET out == roleBuilder_actOrMove(memory, "withdraw", world, time)
         IN [memory |-> out.memory, calls |-> out.calls, refill |-> found]
    ELSE IF world.sources > 0
    THEN LET out == roleBuilder_actOrMove(memory, "harvest", world, time)
         IN [memory |-> out.memory, calls |-> out.calls, refill |-> <<"source">>]
    ELSE [memory |-> memory, calls |-> <<>>, refill |-> NotRefilling]

\* roleUpgrader.run
roleUpgrader_run(memory, world, found, time) ==
    LET sm == roleUpgrader_manageState(memory, world.store)
    IN IF sm.memory.upgrading
       THEN LET out == roleUpgrader_actOrMove(sm.memory, "upgradeController", world, time)
            IN [memory |-> out.memory, transitions |-> sm.transitions,
                calls |-> out.calls, refill |-> NotRefilling]
       ELSE LET out == roleUpgrader_collectEnergy(sm.memory, world, found, time)
            IN [memory |-> out.memory, transitions |-> sm.transitions,
                calls |-> out.calls, refill |-> out.refill]

\* the structure types findBestConstructionSite looks for, in its order
SitePriorities ==
    <<"spawn", "tower", "extension", "container", "storage", "road",
      "rampart", "constructedWall">>

\* roleBuilder.findBestConstructionSite, on a list that is not empty: the
\* index of the site it returns
findBestConstructionSite(sites) ==
    LET typed == {p \in 1..Len(SitePriorities) :
                    \E i \in 1..Len(sites) : sites[i] = SitePriorities[p]}
    IN IF typed = {} THEN 1
       ELSE LET type == SitePriorities[CHOOSE p \in typed : \A q \in typed : p <= q]
            IN CHOOSE i \in 1..Len(sites) :
                 /\ sites[i] = type
                 /\ \A j \in 1..(i - 1) : sites[j] # type

\* roleBuilder.run
roleBuilder_run(memory, world, sites, found, time) ==
    LET sm == roleBuilder_manageState(memory, world.store)
    IN IF sm.memory.building
       THEN LET out == IF Len(sites) > 0
                       THEN roleBuilder_actOrMove(sm.memory, "build", world, time)
                       ELSE roleBuilder_actOrMove(sm.memory, "upgradeController",
                                                  world, time)
            IN [memory |-> out.memory, transitions |-> sm.transitions,
                calls |-> out.calls, refill |-> NotRefilling,
                site |-> IF Len(sites) > 0 THEN findBestConstructionSite(sites) ELSE 0]
       ELSE LET out == roleBuilder_collectEnergy(sm.memory, world, found, time)
            IN [memory |-> out.memory, transitions |-> sm.transitions,
                calls |-> out.calls, refill |-> out.refill, site |-> 0]

\* creep.memory.upgrading of an upgrader, creep.memory.building of a builder
Acting(memory) ==
    IF memory.role = "upgrader" THEN memory.upgrading ELSE memory.building

\* what a run leaves in roleObs
WorkerDigest(world, found, out) ==
    [by |-> creepRecord.role, ticks |-> roleObs.ticks + 1,
     pre |-> creepRecord, store |-> world.store, link |-> world.link,
     structures |-> world.structures, sources |-> world.sources,
     found |-> found, transitions |-> out.transitions,
     refill |-> out.refill, calls |-> out.calls]

WorkerInit ==
    /\ EarlierIdle
    /\ LaterIdle("role")
    /\ Game_time = 1
    /\ creepRecord \in {UpgraderMemory, BuilderMemory}
    /\ roleObs = [by |-> "spawn", ticks |-> 0]

\* a tick of an upgrader
UpgraderTick ==
    /\ creepRecord.role = "upgrader"
    /\ roleObs.ticks < MaxWorkerTicks
    /\ \E world \in WorkerWorlds :
         \E found \in findClosestByPath(HoldingEnergy(world.structures)) :
            LET out == roleUpgrader_run(creepRecord, world, found, Game_time)
            IN /\ creepRecord' = out.memory
               /\ roleObs' = WorkerDigest(world, found, out)
    /\ Game_time' = Game_time + 1
    /\ UNCHANGED notRoleVars

\* a tick of a builder
BuilderTick ==
    /\ creepRecord.role = "builder"
    /\ roleObs.ticks < MaxWorkerTicks
    /\ \E world \in WorkerWorlds, sites \in SiteLists :
         \E found \in findClosestByPath(HoldingEnergy(world.structures)) :
            LET out == roleBuilder_run(creepRecord, world, sites, found, Game_time)
            IN /\ creepRecord' = out.memory
               /\ roleObs' = WorkerDigest(world, found, out)
    /\ Game_time' = Game_time + 1
    /\ UNCHANGED notRoleVars

WorkerNext ==
    \/ UpgraderTick
    \/ BuilderTick

SpecWorker == WorkerInit /\ [][WorkerNext]_vars

\* ------------------------------------------------------------ C19

\* the hysteresis of the one boolean: a run switches to refilling exactly
\* when the creep is acting and carries no energy, then to acting exactly
\* when it is refilling and has no free capacity, and makes no other change
Hysteresis ==
    LET first == Acting(roleObs.pre) /\ roleObs.store.energy = 0
        mid == IF first THEN FALSE ELSE Acting(roleObs.pre)
        second == ~mid /\ roleObs.store.free = 0
        last == IF second THEN TRUE ELSE mid
    IN /\ roleObs.transitions =
            (IF first THEN <<"refilling">> ELSE <<>>)
            \o (IF second THEN <<"acting">> ELSE <<>>)
       /\ Acting(creepRecord) = last

\* the creep collected energy in the last run
Refilling ==
    /\ roleObs.by \in {"upgrader", "builder"}
    /\ ~Acting(creepRecord)

\* the controller link is there and holds energy
LinkHolds == roleObs.link # <<>> /\ roleObs.link[1].energy > 0

\* C19 (as stated): upgrader and builder keep one boolean with hysteresis,
\* and while refilling either of them takes the controller link if it is
\* there and not empty, else a container or storage holding energy, else a
\* source.
C19_RefillOrder ==
    /\ roleObs.by \in {"upgrader", "builder"} => Hysteresis
    /\ Refilling =>
         IF LinkHolds THEN roleObs.refill = <<"link">>
         ELSE IF HoldingEnergy(roleObs.structures) # {}
         THEN roleObs.refill \in Ids(HoldingEnergy(roleObs.structures))
         ELSE roleObs.refill \in {<<"source">>, NotRefilling}

\* C19 (amended): upgrader and builder keep one boolean with hysteresis;
\* while refilling the upgrader takes the controller link if it is there and
\* not empty, and the builder never takes it; otherwise either takes the
\* container or storage holding energy that the closest-by-path search
\* returns, and a source only when that search returns nothing.
C19_RefillOrderByRole ==
    /\ roleObs.by \in {"upgrader", "builder"} => Hysteresis
    /\ Refilling =>
         IF roleObs.by = "upgrader" /\ LinkHolds THEN roleObs.refill = <<"link">>
         ELSE IF roleObs.found # NoTarget
         THEN /\ roleObs.refill = roleObs.found
              /\ roleObs.found \in Ids(HoldingEnergy(roleObs.structures))
         ELSE IF roleObs.sources > 0 THEN roleObs.refill = <<"source">>
         ELSE roleObs.refill = NotRefilling /\ roleObs.calls = <<>>

\* a builder that was acting ran out of energy, switched to refilling and,
\* with a controller link holding energy in the room, withdrew from a
\* container
C19_Witness ==
    /\ roleObs.by = "builder"
    /\ roleObs.ticks >= 2
    /\ roleObs.transitions = <<"refilling">>
    /\ LinkHolds
    /\ roleObs.refill = <<"container", 2>>
    /\ ~Acting(creepRecord)

\* ------------------------------------------------------ mineral miner role

\* the memory a mineral miner is spawned with: the room's mineral is named 1
MineralMinerMemory == [role |-> "mineralMiner", mineralId |-> 1, mining |-> TRUE]

\* the store of a mineral miner: getFreeCapacity(), getUsedCapacity(), and
\* whether it holds a resource that is not energy
MineralStores ==
    {[free |-> 0, used |-> 0, mineral |-> FALSE],
     [free |-> 50, used |-> 0, mineral |-> FALSE],
     [free |-> 30, used |-> 20, mineral |-> TRUE],
     [free |-> 30, used |-> 20, mineral |-> FALSE],
     [free |-> 0, used |-> 50, mineral |-> TRUE]}

\* the extractor on the mineral: none, ready, cooling down
Extractors == {<<>>, <<[cooldown |-> 0]>>, <<[cooldown |-> 5]>>}

\* the free capacity of the terminal, and of the storage, if there is one
Depots == {<<>>, <<0>>, <<1000>>}

\* a tick in which nothing but the mineral matters
QuietWorld ==
    [minerals |-> 1, resolves |-> TRUE, amount |-> 100, inRange |-> TRUE,
     store |-> [free |-> 50, used |-> 0, mineral |-> FALSE],
     extractor |-> <<[cooldown |-> 0]>>, actionResult |-> OK,
     terminal |-> <<>>, storage |-> <<>>, container |-> FALSE]

\* what a mineral miner finds in a tick: the minerals of the room, whether
\* its mineral id resolves, the mineral's amount, whether it is within range
\* 3 of the controller, its store, the extractor, the result of the action
\* it calls, and where it can deposit
MineralWorlds ==
    {[QuietWorld EXCEPT !.resolves = FALSE, !.minerals = n] : n \in {0, 1}}
    \cup
    {[QuietWorld EXCEPT !.amount = 0, !.inRange = r, !.store = st, !.extractor = e] :
        r \in BOOLEAN, st \in MineralStores, e \in Extractors}
    \cup
    {[QuietWorld EXCEPT !.store = st, !.extractor = e, !.actionResult = a] :
        st \in MineralStores, e \in Extractors,
        a \in {OK, ERR_NOT_IN_RANGE, ERR_NOT_ENOUGH_RESOURCES}}
    \cup
    {[QuietWorld EXCEPT !.store = st, !.terminal = t, !.storage = s,
                        !.container = c, !.actionResult = a] :
        st \in MineralStores, t \in Depots, s \in Depots, c \in BOOLEAN,
        a \in {OK, ERR_NOT_IN_RANGE}}

\* creep.say, console.log and the calls that act on the world, as one list
Say(text) == [call |-> "say", steps |-> <<>>, text |-> text]

\* the calls of a list that are not creep.say
Acts(calls) == {calls[i].call : i \in 1..Len(calls)} \ {"say"}

\* mineMineral that harvests while the extractor cools down
mineMineral_IgnoreCooldown(world) ==
    IF world.extractor = <<>>
    THEN <<Say("No extractor")>>
    ELSE <<Call("harvest", <<>>)>>
         \o (IF world.actionResult = ERR_NOT_IN_RANGE THEN <<Call("moveTo", <<>>)>>
             ELSE IF world.actionResult = ERR_NOT_ENOUGH_RESOURCES THEN <<Say("Empty")>>
             ELSE IF world.actionResult = OK THEN <<Say("mining")>>
             ELSE <<>>)

\* roleMineralMiner.mineMineral: the calls it makes
mineMineral(world) ==
    IF world.extractor = <<>>
    THEN <<Say("No extractor")>>
    ELSE IF world.extractor[1].cooldown > 0
    THEN <<Say("cooldown")>>
    ELSE <<Call("harvest", <<>>)>>
         \o (IF world.actionResult = ERR_NOT_IN_RANGE THEN <<Call("moveTo", <<>>)>>
             ELSE IF world.actionResult = ERR_NOT_ENOUGH_RESOURCES THEN <<Say("Empty")>>
             ELSE IF world.actionResult = OK THEN <<Say("mining")>>
             ELSE <<>>)

\* if (creep.transfer(target, mineralType) === ERR_NOT_IN_RANGE) creep.moveTo(target)
transferOrMove(world) ==
    <<Call("transfer", <<>>)>>
    \o (IF world.actionResult = ERR_NOT_IN_RANGE THEN <<Call("moveTo", <<>>)>> ELSE <<>>)

\* roleMineralMiner.depositMineral: the calls it makes
depositMineral(world) ==
    IF ~world.store.mineral THEN <<>>
    ELSE IF world.terminal # <<>> /\ world.terminal[1] > 0 THEN transferOrMove(world)
    ELSE IF world.storage # <<>> /\ world.storage[1] > 0 THEN transferOrMove(world)
    ELSE IF world.container THEN transferOrMove(world)
    ELSE <<Call("drop", <<>>)>>

\* roleMineralMiner.run: the record it leaves, the calls it makes and the
\* line it logs
roleMineralMiner_run(memory, world) ==
    LET m0 == IF memory.mineralId = Undefined /\ world.minerals > 0
              THEN [memory EXCEPT !.mineralId = 1]
              ELSE memory
    IN IF m0.mineralId = Undefined
       THEN [memory |-> m0, calls |-> <<>>, log |-> "no mineral to mine"]
       ELSE IF ~world.resolves
       THEN [memory |-> [m0 EXCEPT !.mineralId = Undefined], calls |-> <<>>,
             log |-> "cannot find mineral"]
       ELSE IF world.amount = 0
       THEN [memory |-> m0,
             calls |-> <<Say("sleep")>>
                       \o (IF ~world.inRange THEN <<Call("moveTo", <<>>)>> ELSE <<>>),
             log |-> "none"]
       ELSE LET first == m0.mining /\ world.store.free = 0
                m1 == IF first THEN [m0 EXCEPT !.mining = FALSE] ELSE m0
                second == ~m1.mining /\ world.store.used = 0
                m2 == IF second THEN [m1 EXCEPT !.mining = TRUE] ELSE m1
                says == (IF first THEN <<Say("deliver")>> ELSE <<>>)
                        \o (IF second THEN <<Say("mine")>> ELSE <<>>)
            IN [memory |-> m2,
                calls |-> says \o (IF m2.mining THEN mineMineral(world)
                                   ELSE depositMineral(world)),
                log |-> "none"]

\* what a run leaves in roleObs: blockedBefore says whether the run before
\* it was a mining run stopped by the extractor
MineralDigest(world, out) ==
    [by |-> "mineralMiner", ticks |-> roleObs.ticks + 1, pre |-> creepRecord,
     world |-> world, calls |-> out.calls, log |-> out.log,
     blockedBefore |->
        /\ roleObs.by = "mineralMiner"
        /\ roleObs.log = "none"
        /\ roleObs.world.amount > 0
        /\ creepRecord.mining
        /\ Acts(roleObs.calls) = {}]

MineralInit ==
    /\ EarlierIdle
    /\ LaterIdle("role")
    /\ Game_time = 1
    /\ creepRecord = MineralMinerMemory
    /\ roleObs = [by |-> "spawn", ticks |-> 0]

\* a tick of a mineral miner
MineralTick ==
    /\ creepRecord.role = "mineralMiner"
    /\ roleObs.ticks < MaxRoleTicks
    /\ \E world \in MineralWorlds :
         LET out == roleMineralMiner_run(creepRecord, world)
         IN /\ creepRecord' = out.memory
            /\ roleObs' = MineralDigest(world, out)
    /\ Game_time' = Game_time + 1
    /\ UNCHANGED notRoleVars

MineralNext == MineralTick

SpecMineral == MineralInit /\ [][MineralNext]_vars

\* ------------------------------------------------------------ C20

\* the last run had a mineral: an id in memory, or a mineral in the room to
\* assign, and the id resolved
HadMineral ==
    /\ roleObs.by = "mineralMiner"
    /\ roleObs.pre.mineralId # Undefined \/ roleObs.world.minerals > 0
    /\ roleObs.world.resolves

\* C20: while the mineral's amount is 0 the mineral miner calls neither
\* harvest nor transfer nor drop, keeps its mining flag, and moves only while
\* it is not within range 3 of the controller; a mining run with the
\* extractor missing or cooling down calls neither harvest nor a move and
\* only says so; harvest is called only in a run in which the extractor is
\* there and off cooldown.
C20_MineralGuards ==
    /\ (HadMineral /\ roleObs.world.amount = 0) =>
         /\ Acts(roleObs.calls) =
               IF roleObs.world.inRange THEN {} ELSE {"moveTo"}
         /\ creepRecord.mining = roleObs.pre.mining
    /\ (/\ HadMineral
        /\ roleObs.world.amount > 0
        /\ creepRecord.mining
        /\ \/ roleObs.world.extractor = <<>>
           \/ roleObs.world.extractor[1].cooldown > 0) =>
         /\ Acts(roleObs.calls) = {}
         /\ \E i \in 1..Len(roleObs.calls) :
              roleObs.calls[i].text \in {"No extractor", "cooldown"}
    /\ (roleObs.by = "mineralMiner" /\ "harvest" \in Acts(roleObs.calls)) =>
         /\ roleObs.world.extractor # <<>>
         /\ roleObs.world.extractor[1].cooldown = 0
         /\ roleObs.world.amount > 0

\* a mining run was stopped by the extractor's cooldown, and the run after
\* it, with the extractor ready, called harvest
C20_Witness ==
    /\ roleObs.by = "mineralMiner"
    /\ roleObs.blockedBefore
    /\ "harvest" \in Acts(roleObs.calls)
    /\ roleObs.world.extractor = <<[cooldown |-> 0]>>

\* ------------------------------------------------------------ C21

\* C21: a persisted id that no longer resolves is deleted from the record in
\* that tick by the component that reads it, and no action is issued on it;
\* for the miner: a run in which the sourceId does not resolve leaves the
\* record without sourceId and makes no call.
C21_StaleSourceIdDeleted ==
    (roleObs.by = "miner" /\ ~roleObs.world.resolves) =>
        /\ creepRecord.sourceId = Undefined
        /\ roleObs.calls = <<>>

\* ----------------------------------------------------------- link manager

\* single ticks of linkManager.run looked at
MaxLinkTicks == 3

\* stretches of ticks looked at
MaxStretches == 2

\* Game.time - room.memory.links.lastUpdate < 500
RefreshEvery == 500

\* the flow threshold of runLinks
FlowThreshold == 400

\* a link as the manager reads it: where it stands, what it holds, the room
\* it has left, its cooldown
Link(id, nearSource, nearController, nearStorage, energy, cooldown) ==
    [id |-> id, nearSource |-> nearSource, nearController |-> nearController,
     nearStorage |-> nearStorage, energy |-> energy, free |-> 800 - energy,
     cooldown |-> cooldown]

\* the subsequences of a sequence of links, keeping the order
RECURSIVE SubSeqs(_)
SubSeqs(seq) ==
    IF seq = <<>> THEN {<<>>}
    ELSE LET rest == SubSeqs(Tail(seq))
         IN rest \cup {<<Head(seq)>> \o r : r \in rest}

\* rooms whose links carry energy: two links at sources, one at the
\* controller, one at the storage, the last two there or not
FlowWorlds ==
    {[level |-> 5, links |-> <<s1, s2>> \o c \o h] :
        s1 \in {Link(1, TRUE, FALSE, FALSE, e[1], e[2]) :
                  e \in {<<399, 0>>, <<400, 0>>, <<800, 3>>}},
        s2 \in {Link(2, TRUE, FALSE, FALSE, e, 0) : e \in {0, 800}},
        c \in {<<>>} \cup {<<Link(3, FALSE, TRUE, FALSE, e, 0)>> : e \in {0, 400, 401}},
        h \in {<<>>} \cup {<<Link(4, FALSE, FALSE, TRUE, e[1], e[2])>> :
                             e \in {<<0, 0>>, <<400, 0>>, <<401, 0>>, <<400, 3>>}}}

\* rooms whose links are built and torn down: one near a source and the
\* controller, one near the controller, one near the controller and the
\* storage, one near the storage, one near none of them
LayoutWorlds ==
    {[level |-> 5, links |-> l] :
        l \in SubSeqs(<<Link(1, TRUE, TRUE, FALSE, 0, 0),
                        Link(2, FALSE, TRUE, FALSE, 0, 0),
                        Link(3, FALSE, TRUE, TRUE, 0, 0),
                        Link(4, FALSE, FALSE, TRUE, 0, 0),
                        Link(5, FALSE, FALSE, FALSE, 0, 0)>>)}

\* the rooms a behaviour looks at, and a room below controller level 5
LinkWorlds(mode) ==
    (IF mode = "flow" THEN FlowWorlds ELSE LayoutWorlds)
    \cup {[level |-> 4, links |-> <<Link(1, TRUE, FALSE, FALSE, 800, 0)>>]}

\* the rooms of a stretch of ticks: the links stand empty, or one cools
\* down; all five links of the layouts are built, or none
StretchWorlds(mode) ==
    IF mode = "flow"
    THEN {w \in FlowWorlds : \A i \in 1..Len(w.links) : w.links[i].energy = 0}
         \cup {[level |-> 5,
                links |-> <<Link(1, TRUE, FALSE, FALSE, 800, 3),
                            Link(2, TRUE, FALSE, FALSE, 0, 0)>>]}
    ELSE {w \in LayoutWorlds : Len(w.links) \in {0, 5}}

\* the largest member of a set of indices, 0 for none
Last(S) == IF S = {} THEN 0 ELSE CHOOSE i \in S : \A j \in S : j <= i

\* the id of links[i], null (0) for i = 0
IdAt(links, i) == IF i = 0 THEN Undefined ELSE links[i].id

\* the classification with the controller tested before the source
initializeLinks_ControllerFirst(memory, time, links) ==
    LET m0 == IF memory.defined THEN memory
              ELSE [defined |-> TRUE, sourceLinks |-> <<>>,
                    controllerLink |-> Undefined, hubLink |-> Undefined,
                    lastUpdate |-> 0]
        idx == 1..Len(links)
        atController == {i \in idx : links[i].nearController}
        atSource == {i \in idx \ atController : links[i].nearSource}
        atStorage == {i \in idx \ (atSource \cup atController) : links[i].nearStorage}
    IN IF time - m0.lastUpdate < RefreshEvery THEN m0
       ELSE IF Len(links) = 0 THEN m0
       ELSE [defined |-> TRUE,
             sourceLinks |-> [i \in 1..Len(SelectSeq(links, LAMBDA l : ~l.nearController /\ l.nearSource)) |->
                                SelectSeq(links, LAMBDA l : ~l.nearController /\ l.nearSource)[i].id],
             controllerLink |-> IdAt(links, Last(atController)),
             hubLink |-> IdAt(links, Last(atStorage)),
             lastUpdate |-> time]

\* linkManager.initializeLinks: room.memory.links after the call
initializeLinks(memory, time, links) ==
    LET m0 == IF memory.defined THEN memory
              ELSE [defined |-> TRUE, sourceLinks |-> <<>>,
                    controllerLink |-> Undefined, hubLink |-> Undefined,
                    lastUpdate |-> 0]
        idx == 1..Len(links)
        atSource == {i \in idx : links[i].nearSource}
        atController == {i \in idx \ atSource : links[i].nearController}
        atStorage == {i \in idx \ (atSource \cup atController) : links[i].nearStorage}
        sources == SelectSeq(links, LAMBDA l : l.nearSource)
    IN IF time - m0.lastUpdate < RefreshEvery THEN m0
       ELSE IF Len(links) = 0 THEN m0
       ELSE [defined |-> TRUE,
             sourceLinks |-> [i \in 1..Len(sources) |-> sources[i].id],
             controllerLink |-> IdAt(links, Last(atController)),
             hubLink |-> IdAt(links, Last(atStorage)),
             lastUpdate |-> time]

\* Game.getObjectById(id) among the links of the room: a sequence of one
\* link, or of none
LinkById(links, id) == SelectSeq(links, LAMBDA l : l.id = id)

\* link.transferEnergy(target), called with no amount: the energy asked to
\* be moved is all the sender holds
transferEnergy(from, to) == [from |-> from.id, to |-> to.id, amount |-> from.energy]

\* the body of the loop over the source links, for the ids from i on
RECURSIVE SourcePushes(_, _, _, _, _)
SourcePushes(ids, i, links, controllerLink, hubLink) ==
    IF i > Len(ids) THEN <<>>
    ELSE LET found == LinkById(links, ids[i])
             rest == SourcePushes(ids, i + 1, links, controllerLink, hubLink)
         IN IF found = <<>> THEN rest
            ELSE IF found[1].cooldown > 0 \/ found[1].energy < FlowThreshold THEN rest
            ELSE IF controllerLink # <<>> /\ controllerLink[1].free >= FlowThreshold
            THEN <<transferEnergy(found[1], controllerLink[1])>> \o rest
            ELSE IF hubLink # <<>> /\ hubLink[1].free >= FlowThreshold
            THEN <<transferEnergy(found[1], hubLink[1])>> \o rest
            ELSE rest

\* runLinks with the hub pushing while it cools down
runLinks_HubAlways(memory, links) ==
    IF ~memory.defined THEN <<>>
    ELSE LET controllerLink == LinkById(links, memory.controllerLink)
             hubLink == LinkById(links, memory.hubLink)
         IN SourcePushes(memory.sourceLinks, 1, links, controllerLink, hubLink)
            \o (IF /\ hubLink # <<>>
                   /\ controllerLink # <<>>
                   /\ hubLink[1].energy >= FlowThreshold
                   /\ controllerLink[1].free >= FlowThreshold
                THEN <<transferEnergy(hubLink[1], controllerLink[1])>>
                ELSE <<>>)

\* linkManager.runLinks: the transferEnergy calls it makes, in order
runLinks(memory, links) ==
    IF ~memory.defined THEN <<>>
    ELSE LET controllerLink == LinkById(links, memory.controllerLink)
             hubLink == LinkById(links, memory.hubLink)
         IN SourcePushes(memory.sourceLinks, 1, links, controllerLink, hubLink)
            \o (IF /\ hubLink # <<>>
                   /\ controllerLink # <<>>
                   /\ hubLink[1].cooldown = 0
                   /\ hubLink[1].energy >= FlowThreshold
                   /\ controllerLink[1].free >= FlowThreshold
                THEN <<transferEnergy(hubLink[1], controllerLink[1])>>
                ELSE <<>>)

\* linkManager.run
linkManager_run(memory, time, world) ==
    IF world.level < 5
    THEN [memory |-> memory, pushes |-> <<>>]
    ELSE LET m == initializeLinks(memory, time, world.links)
         IN [memory |-> m, pushes |-> runLinks(m, world.links)]

\* room.memory.links after linkManager.run has run on each of k ticks from
\* time on, in a room that stays as it is: the ticks of the first half, then
\* those of the second
RECURSIVE RunTicks(_, _, _, _)
RunTicks(memory, time, k, world) ==
    IF k = 0 THEN memory
    ELSE IF k = 1 THEN linkManager_run(memory, time, world).memory
    ELSE CHOOSE after \in
             {RunTicks(mid, time + (k \div 2), k - (k \div 2), world) :
                 mid \in {RunTicks(memory, time, k \div 2, world)}} : TRUE

LinkInit ==
    /\ EarlierIdle
    /\ LaterIdle("links")
    /\ Game_time = 1
    /\ roomLinks = [defined |-> FALSE]
    /\ linkMode \in {"flow", "layout"}
    /\ linkObs = [by |-> "start", ticks |-> 0, stretches |-> 0]

\* one tick of the room manager: linkManager.run(room)
LinkTick ==
    /\ linkMode # "none"
    /\ linkObs.ticks < MaxLinkTicks
    /\ \E world \in LinkWorlds(linkMode) :
         LET out == linkManager_run(roomLinks, Game_time, world)
         IN /\ roomLinks' = out.memory
            /\ linkObs' = [by |-> "tick", ticks |-> linkObs.ticks + 1,
                           stretches |-> linkObs.stretches,
                           time |-> Game_time, last |-> Game_time,
                           before |-> roomLinks, world |-> world,
                           pushes |-> out.pushes]
    /\ Game_time' = Game_time + 1
    /\ UNCHANGED linkMode
    /\ UNCHANGED notLinkVars

\* a stretch of ticks, one tick shorter than the refresh interval, in which
\* the links of the room stay as they are
LinkStretch ==
    /\ linkMode # "none"
    /\ linkObs.stretches < MaxStretches
    /\ \E world \in StretchWorlds(linkMode), k \in {RefreshEvery - 1} :
         /\ roomLinks' = RunTicks(roomLinks, Game_time, k, world)
         /\ linkObs' = [by |-> "stretch", ticks |-> linkObs.ticks,
                        stretches |-> linkObs.stretches + 1,
                        time |-> Game_time, last |-> Game_time + k - 1,
                        before |-> roomLinks, world |-> world,
                        pushes |-> <<>>]
         /\ Game_time' = Game_time + k
    /\ UNCHANGED linkMode
    /\ UNCHANGED notLinkVars

LinkNext ==
    \/ LinkTick
    \/ LinkStretch

SpecLinks == LinkInit /\ [][LinkNext]_vars

\* ------------------------------------------------------------ C22

\* the energy the pushes of the last tick ask to move into the link id
RECURSIVE PushedInto(_, _)
PushedInto(pushes, id) ==
    IF pushes = <<>> THEN 0
    ELSE (IF Head(pushes).to = id THEN Head(pushes).amount ELSE 0)
         + PushedInto(Tail(pushes), id)

\* C22: the energy pushed into a receiver in one tick never exceeds the
\* receiver's free room, also when several links push to it in that tick, no
\* push exceeds the sender's balance, and a link on cooldown does not push.
C22_PushBound ==
    linkObs.by = "tick" =>
        \A i \in 1..Len(linkObs.world.links) :
            LET link == linkObs.world.links[i]
            IN /\ PushedInto(linkObs.pushes, link.id) <= link.free
               /\ \A p \in 1..Len(linkObs.pushes) :
                    linkObs.pushes[p].from = link.id =>
                        /\ linkObs.pushes[p].amount <= link.energy
                        /\ link.cooldown = 0

\* ------------------------------------------------------------ C23

\* the link the memory of the last tick names as controller link, and as hub
\* link, if it is in the room
ControllerLinkThen == LinkById(linkObs.world.links, roomLinks.controllerLink)

HubLinkThen == LinkById(linkObs.world.links, roomLinks.hubLink)

\* the pushes of the last tick made by the link id
PushesOf(id) == SelectSeq(linkObs.pushes, LAMBDA p : p.from = id)

\* C23: a source link that is off cooldown and holds 400 at least pushes to
\* the controller link if that has 400 free, else to the hub link if that
\* has 400 free, else not at all; the hub link pushes to the controller link
\* exactly when it is off cooldown, holds 400 and the controller link has
\* 400 free; no link pushes to a source link, and each link pushes once per
\* tick at most.
C23_Routing ==
    (linkObs.by = "tick" /\ linkObs.world.level >= 5) =>
        LET links == linkObs.world.links
            c == ControllerLinkThen
            h == HubLinkThen
            roomAt(l) == l # <<>> /\ l[1].free >= FlowThreshold
        IN /\ \A i \in 1..Len(links) :
                LET link == links[i]
                    mine == PushesOf(link.id)
                    isSource == \E j \in 1..Len(roomLinks.sourceLinks) :
                                   roomLinks.sourceLinks[j] = link.id
                    ready == link.cooldown = 0 /\ link.energy >= FlowThreshold
                IN /\ Len(mine) <= 1
                   /\ isSource =>
                        IF ready /\ roomAt(c) THEN mine = <<transferEnergy(link, c[1])>>
                        ELSE IF ready /\ roomAt(h) THEN mine = <<transferEnergy(link, h[1])>>
                        ELSE mine = <<>>
                   /\ (h # <<>> /\ link.id = h[1].id) =>
                        IF ready /\ roomAt(c) THEN mine = <<transferEnergy(link, c[1])>>
                        ELSE mine = <<>>
                   /\ (~isSource /\ ~(h # <<>> /\ link.id = h[1].id)) => mine = <<>>
           /\ \A p \in 1..Len(linkObs.pushes) :
                \A j \in 1..Len(roomLinks.sourceLinks) :
                    linkObs.pushes[p].to # roomLinks.sourceLinks[j]

\* in one tick a source link pushed to the hub link, the controller link
\* having too little room, and the hub link stayed still
C23_Witness ==
    /\ linkObs.by = "tick"
    /\ roomLinks.defined
    /\ ControllerLinkThen # <<>>
    /\ ControllerLinkThen[1].free < FlowThreshold
    /\ HubLinkThen # <<>>
    /\ \E p \in 1..Len(linkObs.pushes) :
         /\ linkObs.pushes[p].to = roomLinks.hubLink
         /\ linkObs.pushes[p].from = 1
    /\ PushesOf(roomLinks.hubLink) = <<>>
    /\ HubLinkThen[1].energy >= FlowThreshold

\* ------------------------------------------------------------ C24

\* the ids a record of room.memory.links files under each category
SourceIdsOf(memory) == {memory.sourceLinks[j] : j \in 1..Len(memory.sourceLinks)}

CategoriesOf(memory, id) ==
    (IF id \in SourceIdsOf(memory) THEN {"source"} ELSE {})
    \cup (IF memory.controllerLink = id THEN {"controller"} ELSE {})
    \cup (IF memory.hubLink = id THEN {"hub"} ELSE {})

\* the last run refreshed the classification
Refreshed ==
    /\ linkObs.by = "tick"
    /\ roomLinks.defined
    /\ roomLinks.lastUpdate = linkObs.time

\* the stored classification is the one the record before held
SameClassification(a, b) ==
    /\ a.sourceLinks = b.sourceLinks
    /\ a.controllerLink = b.controllerLink
    /\ a.hubLink = b.hubLink

\* the stored classification does not change in a run made less than 500
\* ticks after the last refresh
KeptUntilRefresh ==
    (/\ linkObs.by \in {"tick", "stretch"}
     /\ linkObs.before.defined
     /\ linkObs.last - linkObs.before.lastUpdate < RefreshEvery) =>
        /\ SameClassification(roomLinks, linkObs.before)
        /\ roomLinks.lastUpdate = linkObs.before.lastUpdate

\* C24 (as stated): after a refresh every link of the room is in exactly one
\* of the three categories, with the precedence source > controller >
\* storage, and the classification stays as it is for 500 ticks.
C24_ExactlyOneCategory ==
    /\ Refreshed =>
         \A i \in 1..Len(linkObs.world.links) :
            Cardinality(CategoriesOf(roomLinks, linkObs.world.links[i].id)) = 1
    /\ KeptUntilRefresh

\* C24 (amended): after a refresh every link of the room is in one category
\* at most; a link within range 2 of a source is a source link; of the
\* others, the last one within range 3 of the controller is the controller
\* link; of the rest, the last one within range 2 of the storage is the hub
\* link; every other link is in no category; and the classification stays as
\* it is until 500 ticks have passed since the refresh.
C24_AtMostOneCategory ==
    /\ Refreshed =>
         LET links == linkObs.world.links
             later(i, test(_)) == \E j \in (i + 1)..Len(links) : test(links[j])
             atController(l) == ~l.nearSource /\ l.nearController
             atStorage(l) == ~l.nearSource /\ ~l.nearController /\ l.nearStorage
         IN \A i \in 1..Len(links) :
              CategoriesOf(roomLinks, links[i].id) =
                 IF links[i].nearSource THEN {"source"}
                 ELSE IF atController(links[i]) /\ ~later(i, atController)
                 THEN {"controller"}
                 ELSE IF atStorage(links[i]) /\ ~later(i, atStorage) THEN {"hub"}
                 ELSE {}
    /\ KeptUntilRefresh

\* a second refresh, 500 ticks after the first, found two links near the
\* controller and one near nothing, and filed the later of the two only
C24_Witness ==
    /\ Refreshed
    /\ linkObs.before.defined
    /\ linkObs.before.lastUpdate = linkObs.time - RefreshEvery
    /\ ~SameClassification(roomLinks, linkObs.before)
    /\ roomLinks.controllerLink = 3
    /\ \E i \in 1..Len(linkObs.world.links) : linkObs.world.links[i].id = 2
    /\ \E i \in 1..Len(linkObs.world.links) : linkObs.world.links[i].id = 5

\* -------------------------------------------------------- terminal manager

\* single ticks of terminalManager.run looked at
MaxTerminalTicks == 3

\* stretches of ticks between two sell evaluations looked at
MaxTerminalStretches == 1

\* Game.time % 100 === 0
SellEvery == 100

\* Game.time % 500 === 0
BuyEvery == 500

\* room.name of the room looked at
RoomName == "W1N1"

\* the keys of sellThresholds, in the order of the literal
SellResources == <<"H", "O", "U", "L", "K", "Z", "X", "G">>

sellThresholds(resourceType) ==
    CASE resourceType \in {"H", "O"} -> 5000
      [] resourceType = "G" -> 1000
      [] OTHER -> 3000

\* the keys of minLevels, in the order of the literal
BuyResources == <<"H", "O", "U", "L", "K", "Z", "X">>

minLevels(resourceType) == IF resourceType \in {"H", "O"} THEN 1000 ELSE 500

\* terminal.store with every resource at its minimum level: nothing to sell,
\* nothing to buy, the energy inside the band
QuietStore ==
    [r \in {"energy", "H", "O", "U", "L", "K", "Z", "X", "G"} |->
        IF r = "energy" THEN 50000 ELSE IF r = "G" THEN 0 ELSE minLevels(r)]

\* an order of the market as the manager reads it; prices in
\* hundred-thousandths of a credit, all of them multiples of 100
Order(id, type, resourceType, price, amount, roomName) ==
    [id |-> id, type |-> type, resourceType |-> resourceType, price |-> price,
     amount |-> amount, roomName |-> roomName]

\* Game.market.calcTransactionCost(1000, room.name, order.roomName): the
\* engine's energy cost of moving 1000 units to a room next door, and to one
\* thirty rooms away
calcTransactionCost(amount, from, to) == IF to = "W1N2" THEN 33 ELSE 632

\* a room with a terminal that is ready, a storage, a hauler with room, and an
\* empty market
QuietRoom ==
    [level |-> 6, terminal |-> <<[cooldown |-> 0, store |-> QuietStore]>>,
     storage |-> <<[energy |-> 100000]>>, haulers |-> 1, credits |-> 20000,
     market |-> <<>>]

\* rooms on both sides of the tests of balanceEnergy
EnergyRooms ==
    {[QuietRoom EXCEPT !.terminal = <<[cooldown |-> 0,
                                       store |-> [QuietStore EXCEPT !["energy"] = e]]>>,
                       !.storage = s, !.haulers = h] :
        e \in {29999, 30000, 100000, 100001},
        s \in {<<>>, <<[energy |-> 100000]>>, <<[energy |-> 100001]>>},
        h \in {0, 1}}

\* the buy orders other players have placed
BuyOrdersPlaced ==
    <<Order(1, "buy", "H", 10000, 500, "W1N2"), Order(2, "buy", "H", 12000, 50, "W30N1"),
      Order(3, "buy", "G", 5000, 500, "W1N2")>>

\* rooms on both sides of the tests of sellExcessResources and createSellOrder
SellRooms ==
    {[QuietRoom EXCEPT !.terminal = <<[cooldown |-> c,
                                       store |-> [QuietStore EXCEPT !["H"] = h, !["G"] = g]]>>,
                       !.credits = cr, !.market = m] :
        c \in {0},
        h \in {5000, 6000, 12000},
        g \in {1000, 1001},
        cr \in {1000, 1001},
        m \in {BuyOrdersPlaced, SubSeq(BuyOrdersPlaced, 3, 3)}}

\* the sell orders other players have placed: the cheapest hydrogen is far
\* away, the next is next door, the one below them is too small
SellOrdersPlaced ==
    <<Order(4, "sell", "H", 10000, 5000, "W30N1"), Order(5, "sell", "H", 10200, 200, "W1N2"),
      Order(6, "sell", "H", 9000, 99, "W1N2"), Order(7, "sell", "O", 8000, 300, "W1N2")>>

\* rooms on both sides of the tests of buyNeededResources and buyResource
BuyRooms ==
    {[QuietRoom EXCEPT !.terminal = <<[cooldown |-> c,
                                       store |-> [QuietStore EXCEPT !["H"] = h, !["O"] = 0]]>>,
                       !.credits = cr, !.market = m] :
        c \in {0, 5},
        h \in {1000, 400},
        cr \in {9999, 10000},
        m \in {<<>>, SellOrdersPlaced, SubSeq(SellOrdersPlaced, 3, 4),
               SubSeq(SellOrdersPlaced, 1, 1) \o SubSeq(SellOrdersPlaced, 4, 4),
               <<Order(8, "sell", "H", 10200, 100, "W1N2")>> \o SubSeq(SellOrdersPlaced, 2, 2)}}

\* the rooms a behaviour looks at, a room below controller level 6 and a room
\* without a terminal among them
TerminalRooms(mode) ==
    (IF mode = "energy" THEN EnergyRooms ELSE SellRooms \cup BuyRooms)
    \cup {[QuietRoom EXCEPT !.level = 5], [QuietRoom EXCEPT !.terminal = <<>>]}

\* the value a flag of room.memory has in a test
Truthy(flag) == flag = "true"

\* terminalManager.balanceEnergy: room.memory after the call
balanceEnergy(memory, world) ==
    LET currentEnergy == world.terminal[1].store["energy"]
    IN IF world.storage = <<>> THEN memory
       ELSE IF currentEnergy < 30000 /\ world.storage[1].energy > 100000
       THEN IF world.haulers > 0
            THEN [memory EXCEPT !.terminalNeedsEnergy = "true"]
            ELSE memory
       ELSE IF currentEnergy > 100000
       THEN [memory EXCEPT !.terminalHasExcessEnergy = "true"]
       ELSE [memory EXCEPT !.terminalNeedsEnergy = "false",
                           !.terminalHasExcessEnergy = "false"]

\* the orders of the market of one type for one resource
getAllOrders(market, type, resourceType) ==
    SelectSeq(market, LAMBDA o : o.type = type /\ o.resourceType = resourceType)

\* _.max(orders, (o) => o.price).price
BestPrice(orders) ==
    CHOOSE p \in {orders[i].price : i \in 1..Len(orders)} :
        \A i \in 1..Len(orders) : orders[i].price <= p

Min(a, b) == IF a <= b THEN a ELSE b

\* createSellOrder with no look at the orders the player has
createSellOrder_Again(myOrders, world, resourceType, amount) ==
    LET orders == getAllOrders(world.market, "buy", resourceType)
    IN IF orders = <<>> THEN <<>>
       ELSE IF world.credits > 1000
       THEN <<[type |-> "sell", resourceType |-> resourceType,
               price |-> (BestPrice(orders) * 95) \div 100,
               totalAmount |-> Min(amount, 5000), roomName |-> RoomName]>>
       ELSE <<>>

\* terminalManager.createSellOrder: the Game.market.createOrder calls it
\* makes
createSellOrder(myOrders, world, resourceType, amount) ==
    LET existingOrder == {o \in myOrders : /\ o.type = "sell"
                                           /\ o.resourceType = resourceType
                                           /\ o.roomName = RoomName}
        orders == getAllOrders(world.market, "buy", resourceType)
    IN IF existingOrder # {} THEN <<>>
       ELSE IF orders = <<>> THEN <<>>
       ELSE IF world.credits > 1000
       THEN <<[type |-> "sell", resourceType |-> resourceType,
               price |-> (BestPrice(orders) * 95) \div 100,
               totalAmount |-> Min(amount, 5000), roomName |-> RoomName]>>
       ELSE <<>>

\* terminalManager.sellExcessResources, from the i-th key of sellThresholds on
RECURSIVE sellExcessResources(_, _, _)
sellExcessResources(myOrders, world, i) ==
    IF i > Len(SellResources) THEN <<>>
    ELSE LET resourceType == SellResources[i]
             amount == world.terminal[1].store[resourceType]
             threshold == sellThresholds(resourceType)
         IN (IF amount > threshold
             THEN createSellOrder(myOrders, world, resourceType, amount - threshold)
             ELSE <<>>)
            \o sellExcessResources(myOrders, world, i + 1)

\* order.price + energyCostPerUnit * 0.01: transferCost / 1000 * 0.01 credits
\* are transferCost hundred-thousandths of a credit
effectivePrice(order) ==
    order.price + calcTransactionCost(1000, RoomName, order.roomName)

\* terminalManager.buyResource: the Game.market.deal calls it may make; where
\* several orders have the lowest effective price the sort may put any of
\* them first
buyResource(world, resourceType, amount) ==
    LET orders == getAllOrders(world.market, "sell", resourceType)
        validOrders == SelectSeq(orders, LAMBDA o : o.amount >= 100)
        first == {i \in 1..Len(validOrders) :
                    \A j \in 1..Len(validOrders) :
                        effectivePrice(validOrders[i]) <= effectivePrice(validOrders[j])}
    IN IF orders = <<>> \/ validOrders = <<>> THEN {<<>>}
       ELSE {<<[id |-> validOrders[i].id,
                amount |-> Min(amount, Min(validOrders[i].amount, 1000)),
                roomName |-> RoomName]>> : i \in first}

\* the keys of minLevels whose amount in the terminal is below the minimum
Needed(world) ==
    {i \in 1..Len(BuyResources) :
        world.terminal[1].store[BuyResources[i]] < minLevels(BuyResources[i])}

\* buyNeededResources going on to the next resource when one finds no order
buyNeededResources_NextOnMiss(world) ==
    IF world.credits < 10000 THEN {<<>>}
    ELSE LET found == {i \in Needed(world) :
                         buyResource(world, BuyResources[i],
                                     minLevels(BuyResources[i])
                                     - world.terminal[1].store[BuyResources[i]]) # {<<>>}}
         IN IF found = {} THEN {<<>>}
            ELSE LET i == CHOOSE n \in found : \A m \in found : n <= m
                 IN buyResource(world, BuyResources[i],
                                minLevels(BuyResources[i])
                                - world.terminal[1].store[BuyResources[i]])

\* terminalManager.buyNeededResources: the Game.market.deal calls it may make
buyNeededResources(world) ==
    IF world.credits < 10000 THEN {<<>>}
    ELSE IF Needed(world) = {} THEN {<<>>}
    ELSE LET i == CHOOSE n \in Needed(world) : \A m \in Needed(world) : n <= m
         IN buyResource(world, BuyResources[i],
                        minLevels(BuyResources[i])
                        - world.terminal[1].store[BuyResources[i]])

\* terminalManager.run: room.memory after it, the createOrder calls it makes
\* and the deal calls it may make
terminalManager_run(memory, myOrders, time, world) ==
    IF world.level < 6 \/ world.terminal = <<>>
    THEN [memory |-> memory, created |-> <<>>, deals |-> {<<>>}]
    ELSE IF world.terminal[1].cooldown > 0
    THEN [memory |-> memory, created |-> <<>>, deals |-> {<<>>}]
    ELSE [memory |-> balanceEnergy(memory, world),
          created |-> IF time % SellEvery = 0
                      THEN sellExcessResources(myOrders, world, 1) ELSE <<>>,
          deals |-> IF time % BuyEvery = 0 THEN buyNeededResources(world) ELSE {<<>>}]

\* the orders the market holds for the player once it has taken the
\* createOrder calls numbered in accepted
Placed(myOrders, created, accepted, time) ==
    myOrders \cup {Order(<<time, created[i].resourceType>>, "sell",
                         created[i].resourceType, created[i].price,
                         created[i].totalAmount, RoomName) : i \in accepted}

\* room.memory and the player's orders after terminalManager.run has run on
\* each of k ticks from time on, in a room that stays as it is: the ticks of
\* the first half, then those of the second
RECURSIVE TerminalTicks(_, _, _, _)
TerminalTicks(state, time, k, world) ==
    IF k = 0 THEN state
    ELSE IF k = 1
    THEN LET out == terminalManager_run(state.memory, state.orders, time, world)
         IN [memory |-> out.memory,
             orders |-> Placed(state.orders, out.created, 1..Len(out.created), time)]
    ELSE CHOOSE after \in
             {TerminalTicks(mid, time + (k \div 2), k - (k \div 2), world) :
                 mid \in {TerminalTicks(state, time, k \div 2, world)}} : TRUE

\* an order of the player in another room, and one in this room
OrdersHeld ==
    {Order(<<1, "H">>, "sell", "H", 9500, 1000, "W2N2"),
     Order(<<2, "G">>, "sell", "G", 4750, 1, RoomName)}

TerminalInit ==
    /\ EarlierIdle
    /\ LaterIdle("rooms")
    /\ Game_time \in {100, 499}
    /\ room_memory = [part |-> "terminal", terminalNeedsEnergy |-> "undefined",
                      terminalHasExcessEnergy |-> "undefined"]
    /\ Game_market_orders \in SUBSET OrdersHeld
    /\ \E mode \in {"energy", "market"} :
         roomObs = [by |-> "start", mode |-> mode, ticks |-> 0, stretches |-> 0]

\* one tick of the room manager: terminalManager.run(room); the market takes
\* some of the orders asked for
TerminalTick ==
    /\ room_memory.part = "terminal"
    /\ roomObs.ticks < MaxTerminalTicks
    /\ \E world \in TerminalRooms(roomObs.mode) :
         LET out == terminalManager_run(room_memory, Game_market_orders, Game_time, world)
         IN /\ room_memory' = out.memory
            /\ \E accepted \in SUBSET (1..Len(out.created)), deals \in out.deals :
                 /\ Game_market_orders' =
                        Placed(Game_market_orders, out.created, accepted, Game_time)
                 /\ roomObs' = [by |-> "tick", mode |-> roomObs.mode,
                                ticks |-> roomObs.ticks + 1,
                                stretches |-> roomObs.stretches,
                                time |-> Game_time, world |-> world,
                                before |-> room_memory,
                                ordersBefore |-> Game_market_orders,
                                created |-> out.created, deals |-> deals]
    /\ Game_time' = Game_time + 1
    /\ UNCHANGED notRoomVars

\* the ticks up to the one before the next sell evaluation, in a room with
\* nothing to sell or buy
TerminalStretch ==
    /\ room_memory.part = "terminal"
    /\ roomObs.by = "tick"
    /\ roomObs.stretches < MaxTerminalStretches
    /\ LET k == SellEvery - (Game_time % SellEvery)
           after == TerminalTicks([memory |-> room_memory, orders |-> Game_market_orders],
                                  Game_time, k, QuietRoom)
       IN /\ room_memory' = after.memory
          /\ Game_market_orders' = after.orders
          /\ roomObs' = [by |-> "stretch", mode |-> roomObs.mode,
                         ticks |-> roomObs.ticks,
                         stretches |-> roomObs.stretches + 1,
                         time |-> Game_time, world |-> QuietRoom,
                         before |-> room_memory,
                         ordersBefore |-> Game_market_orders,
                         created |-> <<>>, deals |-> <<>>]
          /\ Game_time' = Game_time + k
    /\ UNCHANGED notRoomVars

\* an order of the player is filled or runs out, and leaves the market
OrderLeaves ==
    /\ room_memory.part = "terminal"
    /\ roomObs.by = "tick"
    /\ \E o \in Game_market_orders :
         /\ Game_market_orders' = Game_market_orders \ {o}
         /\ roomObs' = [roomObs EXCEPT !.by = "left"]
    /\ UNCHANGED <<room_memory, Game_time>>
    /\ UNCHANGED notRoomVars

TerminalNext ==
    \/ TerminalTick
    \/ TerminalStretch
    \/ OrderLeaves

SpecTerminal == TerminalInit /\ [][TerminalNext]_vars

\* ------------------------------------------------------------ C25

\* the last tick ran balanceEnergy
Balanced ==
    /\ roomObs.by = "tick"
    /\ roomObs.world.level >= 6
    /\ roomObs.world.terminal # <<>>
    /\ roomObs.world.terminal[1].cooldown = 0

\* C25: after each balancing step terminalNeedsEnergy is true whenever the
\* terminal holds less than 30000 energy while the storage holds more than
\* 100000, terminalHasExcessEnergy is true whenever the terminal holds more
\* than 100000, and neither flag is true whenever the terminal is inside the
\* band.
C25_FlagsFollowBand ==
    Balanced =>
        LET currentEnergy == roomObs.world.terminal[1].store["energy"]
            storage == roomObs.world.storage
        IN /\ (/\ currentEnergy < 30000
               /\ storage # <<>>
               /\ storage[1].energy > 100000) =>
                    Truthy(room_memory.terminalNeedsEnergy)
           /\ currentEnergy > 100000 => Truthy(room_memory.terminalHasExcessEnergy)
           /\ (currentEnergy >= 30000 /\ currentEnergy <= 100000) =>
                    /\ ~Truthy(room_memory.terminalNeedsEnergy)
                    /\ ~Truthy(room_memory.terminalHasExcessEnergy)

\* ------------------------------------------------------------ C26

\* the last tick was a sell evaluation
SellEvaluation == Balanced /\ roomObs.time % SellEvery = 0

\* the createOrder calls of the last tick for one resource
CreatedFor(resourceType) ==
    SelectSeq(roomObs.created, LAMBDA c : c.resourceType = resourceType)

\* the sell orders of this room for one resource among orders
SellOrdersOf(orders, resourceType) ==
    {o \in orders : /\ o.type = "sell"
                    /\ o.resourceType = resourceType
                    /\ o.roomName = RoomName}

\* what the terminal of the last tick holds above the sell threshold
Surplus(resourceType) ==
    roomObs.world.terminal[1].store[resourceType] - sellThresholds(resourceType)

\* the market never holds two sell orders of this room for one resource
OneOrderPerResource ==
    \A i \in 1..Len(SellResources) :
        Cardinality(SellOrdersOf(Game_market_orders, SellResources[i])) <= 1

BuyEvaluation ==
    /\ Balanced
    /\ roomObs.time % BuyEvery = 0
    /\ roomObs.world.credits >= 10000

\* the sell orders of the market of the last tick that offer 100 at least of
\* a resource
Offers(resourceType) ==
    SelectSeq(getAllOrders(roomObs.world.market, "sell", resourceType),
              LAMBDA o : o.amount >= 100)

\* the first key of minLevels the terminal of the last tick holds too little
\* of
FirstNeeded ==
    BuyResources[CHOOSE n \in Needed(roomObs.world) :
                    \A m \in Needed(roomObs.world) : n <= m]

\* C27: a tick makes one deal at most, and only at a buy evaluation (a tick
\* that is a multiple of 500, the terminal off cooldown, 10000 credits at
\* least); the deal is for the first resource below its minimum, against an
\* order of the lowest effective price among those offering 100 at least,
\* for min(deficit, order amount, 1000); when that resource has no such order
\* no deal is made, whatever else is below its minimum.
C27_OneDeal ==
    roomObs.by = "tick" =>
        /\ Len(roomObs.deals) <= 1
        /\ roomObs.deals # <<>> =>
             /\ BuyEvaluation
             /\ Needed(roomObs.world) # {}
             /\ \E i \in 1..Len(Offers(FirstNeeded)) :
                  LET order == Offers(FirstNeeded)[i]
                      deficit == minLevels(FirstNeeded)
                                 - roomObs.world.terminal[1].store[FirstNeeded]
                  IN /\ roomObs.deals[1].id = order.id
                     /\ \A j \in 1..Len(Offers(FirstNeeded)) :
                          effectivePrice(order) <= effectivePrice(Offers(FirstNeeded)[j])
                     /\ roomObs.deals[1].amount = Min(deficit, Min(order.amount, 1000))
        /\ (/\ BuyEvaluation
            /\ Needed(roomObs.world) # {}
            /\ roomObs.deals = <<>>) => Offers(FirstNeeded) = <<>>

\* with 400 hydrogen in the terminal and no oxygen, the evaluation dealt for
\* 200 hydrogen with the order next door, passing by the order of the lower
\* price thirty rooms away and the order of 99 units
C27_Witness ==
    /\ BuyEvaluation
    /\ roomObs.world.market = SellOrdersPlaced
    /\ roomObs.world.terminal[1].store["H"] = 400
    /\ roomObs.deals = <<[id |-> 5, amount |-> 200, roomName |-> RoomName]>>

\* ------------------------------------------------------------- lab manager

\* ticks of labManager.run looked at
MaxLabTicks == 3

\* Game.time - room.memory.labs.lastUpdate < 1000
ConfigureEvery == 1000

ERR_FULL == -8

\* a lab as the manager reads it: its range to the storage, the compound it
\* holds (none: <<>>), its cooldown, and what runReaction answers when it is
\* the one to react
Lab(id, range, mineralType, cooldown, result) ==
    [id |-> id, range |-> range, mineralType |-> mineralType,
     cooldown |-> cooldown, result |-> result]

\* the labs of a room in the order room.find returns them: two close to the
\* storage, two further away
LabsFound(m1, m2, c3, r3, c4, r4) ==
    <<Lab(3, 3, <<"H">>, c3, r3), Lab(1, 1, m1, 0, OK),
      Lab(4, 4, <<"O">>, c4, r4), Lab(2, 2, m2, 0, OK)>>

\* the sequence without the labs whose ids are in gone
Without(labs, gone) == SelectSeq(labs, LAMBDA l : l.id \notin gone)

\* rooms on both sides of the tests of initializeLabs and run
LabRooms ==
    {[level |-> 6, storage |-> st, labs |-> Without(LabsFound(m[1], m[2], c3, r3, c4, r4), gone)] :
        m \in {<<<<"H">>, <<"O">>>>, <<<<"H">>, <<>>>>, <<<<>>, <<"O">>>>},
        c3 \in {0, 5},
        r3 \in {OK, ERR_FULL},
        c4 \in {0},
        r4 \in {OK, ERR_FULL, ERR_NOT_IN_RANGE},
        st \in BOOLEAN,
        gone \in {{}, {4}, {3, 4}, {1}}}
    \cup {[level |-> 5, storage |-> TRUE,
           labs |-> LabsFound(<<"H">>, <<"O">>, 0, ERR_FULL, 0, ERR_FULL)]}

\* labs.sort((a, b) => storage.pos.getRangeTo(a) - storage.pos.getRangeTo(b)),
\* for labs no two of which are at the same range
RECURSIVE SortByRange(_)
SortByRange(labs) ==
    IF labs = <<>> THEN <<>>
    ELSE LET i == CHOOSE n \in 1..Len(labs) :
                    \A m \in 1..Len(labs) : labs[n].range <= labs[m].range
         IN <<labs[i]>> \o SortByRange(SubSeq(labs, 1, i - 1) \o SubSeq(labs, i + 1, Len(labs)))

\* the ids of a sequence of labs
IdsOf(labs) == [i \in 1..Len(labs) |-> labs[i].id]

\* labManager.initializeLabs: room.memory.labs after the call
initializeLabs(labData, time, world) ==
    LET m0 == IF labData # <<>> THEN labData[1]
              ELSE [inputLabs |-> <<>>, outputLabs |-> <<>>, lastUpdate |-> 0]
        labs == IF world.storage THEN SortByRange(world.labs) ELSE world.labs
    IN IF time - m0.lastUpdate < ConfigureEvery THEN <<m0>>
       ELSE IF Len(world.labs) < 3 THEN <<m0>>
       ELSE <<[inputLabs |-> IdsOf(SubSeq(labs, 1, 2)),
               outputLabs |-> IdsOf(SubSeq(labs, 3, Len(labs))),
               lastUpdate |-> time]>>

\* Game.getObjectById(id) among the labs of the room: a sequence of one lab,
\* or of none
LabById(labs, id) == SelectSeq(labs, LAMBDA l : l.id = id)

\* labManager.markLabForEmptying: room.memory.labsToEmpty after the call
markLabForEmptying(labsToEmpty, id) ==
    IF \E i \in 1..Len(labsToEmpty) : labsToEmpty[i] = id
    THEN labsToEmpty
    ELSE Append(labsToEmpty, id)

\* the loop of run over the output labs, from the i-th on: the runReaction
\* calls made and room.memory.labsToEmpty
RECURSIVE Reactions(_, _, _, _, _)
Reactions(outputLabs, i, labs, loaded, out) ==
    IF i > Len(outputLabs) THEN out
    ELSE LET outputLab == LabById(labs, outputLabs[i])
             next(o) == Reactions(outputLabs, i + 1, labs, loaded, o)
         IN IF outputLab = <<>> THEN next(out)
            ELSE IF outputLab[1].cooldown > 0 THEN next(out)
            ELSE IF ~loaded THEN next(out)
            ELSE next([calls |-> Append(out.calls, outputLabs[i]),
                       labsToEmpty |->
                           IF outputLab[1].result = ERR_FULL
                           THEN markLabForEmptying(out.labsToEmpty, outputLabs[i])
                           ELSE out.labsToEmpty])

\* labManager.run: room.memory.labs and room.memory.labsToEmpty after it, and
\* the labs it called runReaction on
labManager_run(memory, time, world) ==
    IF world.level < 6
    THEN [labs |-> memory.labs, labsToEmpty |-> memory.labsToEmpty, calls |-> <<>>]
    ELSE LET labData == initializeLabs(memory.labs, time, world)
             still == [labs |-> labData, labsToEmpty |-> memory.labsToEmpty, calls |-> <<>>]
         IN IF Len(labData[1].inputLabs) < 2 \/ Len(labData[1].outputLabs) = 0 THEN still
            ELSE LET inputLab1 == LabById(world.labs, labData[1].inputLabs[1])
                     inputLab2 == LabById(world.labs, labData[1].inputLabs[2])
                 IN IF inputLab1 = <<>> \/ inputLab2 = <<>> THEN still
                    ELSE LET out == Reactions(labData[1].outputLabs, 1, world.labs,
                                              /\ inputLab1[1].mineralType # <<>>
                                              /\ inputLab2[1].mineralType # <<>>,
                                              [calls |-> <<>>,
                                               labsToEmpty |-> memory.labsToEmpty])
                         IN [labs |-> labData, labsToEmpty |-> out.labsToEmpty,
                             calls |-> out.calls]

\* room.memory holds no labs and no labsToEmpty (an empty list stands for
\* the missing one)
LabInit ==
    /\ EarlierIdle
    /\ LaterIdle("rooms")
    /\ Game_time \in {ConfigureEvery - 1, ConfigureEvery}
    /\ room_memory = [part |-> "labs", labs |-> <<>>, labsToEmpty |-> <<>>]
    /\ Game_market_orders = {}
    /\ roomObs = [by |-> "start", ticks |-> 0]

\* one tick of the room manager: labManager.run(room)
LabTick ==
    /\ room_memory.part = "labs"
    /\ roomObs.ticks < MaxLabTicks
    /\ \E world \in LabRooms :
         LET out == labManager_run(room_memory, Game_time, world)
         IN /\ room_memory' = [part |-> "labs", labs |-> out.labs,
                               labsToEmpty |-> out.labsToEmpty]
            /\ roomObs' = [by |-> "tick", ticks |-> roomObs.ticks + 1,
                           time |-> Game_time, world |-> world,
                           before |-> room_memory, calls |-> out.calls]
    /\ Game_time' = Game_time + 1
    /\ UNCHANGED Game_market_orders
    /\ UNCHANGED notRoomVars

LabNext == LabTick

SpecLabs == LabInit /\ [][LabNext]_vars

\* ------------------------------------------------------------ C28

\* the members of a sequence
Range(seq) == {seq[i] : i \in 1..Len(seq)}

\* the output labs configured after the last tick that stand in the room off
\* cooldown
ReadyOutputs ==
    IF room_memory.labs = <<>> THEN {}
    ELSE {id \in Range(room_memory.labs[1].outputLabs) :
            /\ LabById(roomObs.world.labs, id) # <<>>
            /\ LabById(roomObs.world.labs, id)[1].cooldown = 0}

\* both input labs configured after the last tick stand in the room and hold
\* a compound
InputsLoaded ==
    /\ room_memory.labs # <<>>
    /\ Len(room_memory.labs[1].inputLabs) = 2
    /\ \A i \in 1..2 :
         /\ LabById(roomObs.world.labs, room_memory.labs[1].inputLabs[i]) # <<>>
         /\ LabById(roomObs.world.labs, room_memory.labs[1].inputLabs[i])[1].mineralType # <<>>

\* a lab whose reaction reported full is in the list, and no lab is in it
\* twice
FlaggedOnce ==
    /\ roomObs.by = "tick" =>
         \A id \in Range(roomObs.calls) :
            LabById(roomObs.world.labs, id)[1].result = ERR_FULL =>
                id \in Range(room_memory.labsToEmpty)
    /\ Cardinality(Range(room_memory.labsToEmpty)) = Len(room_memory.labsToEmpty)

\* a lab that was in the list before the tick did not react in it
NotRetried ==
    roomObs.by = "tick" =>
        Range(roomObs.calls) \cap Range(roomObs.before.labsToEmpty) = {}

\* C28: each tick every configured output lab that is off cooldown attempts
\* one reaction if and only if both input labs hold a compound; an output lab
\* whose attempt reports full is recorded once in room.memory.labsToEmpty, and
\* is not retried on later ticks while it is in that list.
C28_Pipeline ==
    /\ (roomObs.by = "tick" /\ roomObs.world.level >= 6) =>
         /\ \A id \in ReadyOutputs \ Range(roomObs.before.labsToEmpty) :
              Len(SelectSeq(roomObs.calls, LAMBDA c : c = id))
                 = IF InputsLoaded THEN 1 ELSE 0
         /\ Range(roomObs.calls) \subseteq ReadyOutputs
    /\ FlaggedOnce
    /\ NotRetried

\* ------------------------------------------------------------------ towers

\* a hostile creep as runTowers reads it: its active HEAL, RANGED_ATTACK and
\* ATTACK parts and its range to the first spawn of the room
Hostile(id, heal, ranged, attack, range) ==
    [id |-> id, heal |-> heal, ranged |-> ranged, attack |-> attack, range |-> range]

\* the hostile creeps that may stand in the room, in the order room.find
\* returns them: a melee attacker and a harmless one close to the spawn, a
\* ranged attacker, a healer further away, a healer with an attack part
HostilesAround ==
    <<Hostile(<<"hostile", 1>>, 0, 0, 2, 1), Hostile(<<"hostile", 2>>, 0, 0, 0, 2),
      Hostile(<<"hostile", 3>>, 0, 1, 0, 3), Hostile(<<"hostile", 4>>, 3, 0, 0, 5),
      Hostile(<<"hostile", 5>>, 1, 0, 1, 4)>>

\* a creep or a structure with its hits
Damageable(id, structureType, hits, hitsMax) ==
    [id |-> id, structureType |-> structureType, hits |-> hits, hitsMax |-> hitsMax]

\* the creeps of the player: two damaged, one whole
CreepsAround ==
    <<Damageable(<<"creep", 1>>, "creep", 50, 100),
      Damageable(<<"creep", 2>>, "creep", 30, 100),
      Damageable(<<"creep", 3>>, "creep", 100, 100)>>

\* the structures of the room: an extension and a tower below half their
\* hits, a container below half, a wall and a rampart, a road at 88% and a
\* container at 80%, an extension at 60%
StructuresAround ==
    <<Damageable(<<"extension", 1>>, "extension", 400, 1000),
      Damageable(<<"tower", 9>>, "tower", 1400, 3000),
      Damageable(<<"container", 1>>, "container", 4000, 10000),
      Damageable(<<"constructedWall", 1>>, "constructedWall", 60000, 300000000),
      Damageable(<<"rampart", 1>>, "rampart", 49999, 10000000),
      Damageable(<<"road", 1>>, "road", 4400, 5000),
      Damageable(<<"container", 2>>, "container", 8000, 10000),
      Damageable(<<"extension", 2>>, "extension", 600, 1000)>>

\* rooms under attack, with and without a spawn, and rooms at peace
TowerRooms ==
    {[towers |-> t, level |-> 5, spawn |-> sp, hostiles |-> h,
      creeps |-> CreepsAround, structures |-> StructuresAround] :
        t \in 1..2, sp \in BOOLEAN, h \in SubSeqs(HostilesAround) \ {<<>>}}
    \cup {[towers |-> t, level |-> l, spawn |-> TRUE, hostiles |-> <<>>,
           creeps |-> c, structures |-> s] :
            t \in {1},
            l \in {5, 7},
            c \in {SubSeq(CreepsAround, 1, 3), SubSeq(CreepsAround, 1, 1),
                   SubSeq(CreepsAround, 3, 3)},
            s \in SubSeqs(StructuresAround)}
    \cup {[towers |-> t, level |-> 5, spawn |-> TRUE, hostiles |-> <<>>,
           creeps |-> SubSeq(CreepsAround, 3, 3),
           structures |-> SubSeq(StructuresAround, k, 8)] : t \in {0, 2}, k \in {1, 4, 6, 8}}

\* the members of a sequence for which key is lowest: what _.min returns, and
\* findClosestByRange, is one of them
Lowest(seq, key(_)) ==
    {seq[i] : i \in {n \in 1..Len(seq) : \A m \in 1..Len(seq) : key(seq[n]) <= key(seq[m])}}

\* the members of a sequence for which hits / hitsMax is lowest
LowestFraction(seq) ==
    {seq[i] : i \in {n \in 1..Len(seq) :
                        \A m \in 1..Len(seq) :
                            seq[n].hits * seq[m].hitsMax <= seq[m].hits * seq[n].hitsMax}}

\* roomManager.findClosestToSpawn: the creeps it may return
findClosestToSpawn(hostiles, spawn) ==
    IF ~spawn THEN {hostiles[1]}
    ELSE Lowest(hostiles, LAMBDA c : c.range)

\* findPriorityTarget with the ranged attackers looked for first
findPriorityTarget_RangedFirst(hostiles, spawn) ==
    LET healers == SelectSeq(hostiles, LAMBDA c : c.heal > 0)
        ranged == SelectSeq(hostiles, LAMBDA c : c.ranged > 0)
        melee == SelectSeq(hostiles, LAMBDA c : c.attack > 0)
    IN IF ranged # <<>> THEN findClosestToSpawn(ranged, spawn)
       ELSE IF healers # <<>> THEN findClosestToSpawn(healers, spawn)
       ELSE IF melee # <<>> THEN findClosestToSpawn(melee, spawn)
       ELSE findClosestToSpawn(hostiles, spawn)

\* roomManager.findPriorityTarget: the creeps it may return
findPriorityTarget(hostiles, spawn) ==
    LET healers == SelectSeq(hostiles, LAMBDA c : c.heal > 0)
        ranged == SelectSeq(hostiles, LAMBDA c : c.ranged > 0)
        melee == SelectSeq(hostiles, LAMBDA c : c.attack > 0)
    IN IF healers # <<>> THEN findClosestToSpawn(healers, spawn)
       ELSE IF ranged # <<>> THEN findClosestToSpawn(ranged, spawn)
       ELSE IF melee # <<>> THEN findClosestToSpawn(melee, spawn)
       ELSE findClosestToSpawn(hostiles, spawn)

IsWall(s) == s.structureType \in {"constructedWall", "rampart"}

\* the four lists the body of the loop filters out of the room
damagedCreeps(world) == SelectSeq(world.creeps, LAMBDA c : c.hits < c.hitsMax)

criticalStructures(world) ==
    SelectSeq(world.structures, LAMBDA s : s.hits * 2 < s.hitsMax /\ ~IsWall(s))

minWallHits(world) == Min(10000 * world.level, 300000)

damagedWalls(world) ==
    SelectSeq(world.structures, LAMBDA s : IsWall(s) /\ s.hits < minWallHits(world))

damagedInfrastructure(world) ==
    SelectSeq(world.structures,
              LAMBDA s : /\ s.structureType \in {"road", "container"}
                         /\ s.hits * 10 < s.hitsMax * 9)

\* the calls one pass of the loop may make with the heal made after the
\* attack, in the same pass
TowerActs_NoContinue(world) ==
    LET attacks == IF world.hostiles # <<>>
                   THEN {<<[act |-> "attack", target |-> t.id]>> :
                            t \in findPriorityTarget(world.hostiles, world.spawn)}
                   ELSE {<<>>}
        heals == IF damagedCreeps(world) # <<>>
                 THEN {<<[act |-> "heal", target |-> t.id]>> :
                          t \in Lowest(damagedCreeps(world), LAMBDA c : c.hits)}
                 ELSE {<<>>}
    IN {a \o h : a \in attacks, h \in heals}

\* the body of the loop of runTowers: the calls one pass may make on its
\* tower
TowerActs(world) ==
    IF world.hostiles # <<>>
    THEN {<<[act |-> "attack", target |-> t.id]>> :
             t \in findPriorityTarget(world.hostiles, world.spawn)}
    ELSE IF damagedCreeps(world) # <<>>
    THEN {<<[act |-> "heal", target |-> t.id]>> :
             t \in Lowest(damagedCreeps(world), LAMBDA c : c.hits)}
    ELSE IF criticalStructures(world) # <<>>
    THEN {<<[act |-> "repair", target |-> t.id]>> :
             t \in Lowest(criticalStructures(world), LAMBDA s : s.hits)}
    ELSE IF damagedWalls(world) # <<>>
    THEN {<<[act |-> "repair", target |-> t.id]>> :
             t \in Lowest(damagedWalls(world), LAMBDA s : s.hits)}
    ELSE IF damagedInfrastructure(world) # <<>>
    THEN {<<[act |-> "repair", target |-> t.id]>> :
             t \in LowestFraction(damagedInfrastructure(world))}
    ELSE {<<>>}

\* runTowers with no continue after the attack
runTowers_NoContinue(world) ==
    {[tower \in 1..world.towers |-> acts] : acts \in TowerActs_NoContinue(world)}

\* roomManager.runTowers: per tower of the room, the calls made on it; every
\* pass of the loop reads the same room
runTowers(world) ==
    {[tower \in 1..world.towers |-> acts] : acts \in TowerActs(world)}

TowerInit ==
    /\ EarlierIdle
    /\ LaterIdle("rooms")
    /\ Game_time = 1
    /\ room_memory = [part |-> "towers"]
    /\ Game_market_orders = {}
    /\ roomObs = [by |-> "start"]

\* one tick of the room manager: this.runTowers(room)
TowerTick ==
    /\ room_memory.part = "towers"
    /\ \E world \in TowerRooms :
         \E calls \in runTowers(world) :
            roomObs' = [by |-> "tick", world |-> world, calls |-> calls]
    /\ UNCHANGED <<room_memory, Game_market_orders, Game_time>>
    /\ UNCHANGED notRoomVars

TowerNext == TowerTick

SpecTowers == TowerInit /\ [][TowerNext]_vars

\* ------------------------------------------------------------ C29

\* the member of seq with the id
ById(seq, id) == CHOOSE x \in {seq[i] : i \in 1..Len(seq)} : x.id = id

\* the hostile creeps of the last tick of the first class that has any:
\* healers, ranged attackers, melee attackers, all
FirstClass ==
    LET h == roomObs.world.hostiles
    IN IF SelectSeq(h, LAMBDA c : c.heal > 0) # <<>>
       THEN SelectSeq(h, LAMBDA c : c.heal > 0)
       ELSE IF SelectSeq(h, LAMBDA c : c.ranged > 0) # <<>>
       THEN SelectSeq(h, LAMBDA c : c.ranged > 0)
       ELSE IF SelectSeq(h, LAMBDA c : c.attack > 0) # <<>>
       THEN SelectSeq(h, LAMBDA c : c.attack > 0)
       ELSE h

\* C29: every call a tower makes is on the first category that has a member:
\* an attack on a hostile creep of the first class among healers, ranged
\* attackers, melee attackers and all, the closest to the spawn of that
\* class; else a heal of the damaged creep of the lowest hits; else a repair
\* of the structure other than wall and rampart below half its hits, of the
\* lowest hits; else of the wall or rampart below min(10000 x level, 300000),
\* of the lowest hits; else of the road or container below 90%, of the lowest
\* fraction of hits.  With a healer among the hostile creeps the target is a
\* healer, and with any hostile creep in the room no heal and no repair is
\* made.
C29_DefensePriority ==
    roomObs.by = "tick" =>
        \A tower \in 1..roomObs.world.towers :
            \A n \in 1..Len(roomObs.calls[tower]) :
                LET call == roomObs.calls[tower][n]
                    w == roomObs.world
                    lowest(seq, id) ==
                        \A i \in 1..Len(seq) : ById(seq, id).hits <= seq[i].hits
                IN IF w.hostiles # <<>>
                   THEN /\ call.act = "attack"
                        /\ \E i \in 1..Len(FirstClass) : FirstClass[i].id = call.target
                        /\ w.spawn =>
                             \A i \in 1..Len(FirstClass) :
                                ById(FirstClass, call.target).range <= FirstClass[i].range
                        /\ ~w.spawn => call.target = FirstClass[1].id
                        /\ (\E i \in 1..Len(w.hostiles) : w.hostiles[i].heal > 0) =>
                             ById(w.hostiles, call.target).heal > 0
                   ELSE IF \E i \in 1..Len(w.creeps) : w.creeps[i].hits < w.creeps[i].hitsMax
                   THEN /\ call.act = "heal"
                        /\ \E i \in 1..Len(w.creeps) : w.creeps[i].id = call.target
                        /\ ById(w.creeps, call.target).hits < ById(w.creeps, call.target).hitsMax
                        /\ \A i \in 1..Len(w.creeps) :
                             w.creeps[i].hits < w.creeps[i].hitsMax =>
                                ById(w.creeps, call.target).hits <= w.creeps[i].hits
                   ELSE /\ call.act = "repair"
                        /\ \E i \in 1..Len(w.structures) : w.structures[i].id = call.target
                        /\ LET t == ById(w.structures, call.target)
                               critical(s) == ~IsWall(s) /\ 2 * s.hits < s.hitsMax
                               weak(s) == IsWall(s) /\ s.hits < Min(10000 * w.level, 300000)
                               worn(s) == /\ s.structureType \in {"road", "container"}
                                          /\ 10 * s.hits < 9 * s.hitsMax
                               any(test(_)) == \E i \in 1..Len(w.structures) :
                                                  test(w.structures[i])
                           IN IF any(critical)
                              THEN /\ critical(t)
                                   /\ \A i \in 1..Len(w.structures) :
                                        critical(w.structures[i]) =>
                                            t.hits <= w.structures[i].hits
                              ELSE IF any(weak)
                              THEN /\ weak(t)
                                   /\ \A i \in 1..Len(w.structures) :
                                        weak(w.structures[i]) => t.hits <= w.structures[i].hits
                              ELSE /\ worn(t)
                                   /\ \A i \in 1..Len(w.structures) :
                                        worn(w.structures[i]) =>
                                            t.hits * w.structures[i].hitsMax
                                               <= w.structures[i].hits * t.hitsMax

\* with a melee attacker next to the spawn, a healer further away and damaged
\* creeps in the room, both towers attacked a healer and nothing else was done
C29_Witness ==
    /\ roomObs.by = "tick"
    /\ roomObs.world.towers = 2
    /\ roomObs.world.spawn
    /\ \E i \in 1..Len(roomObs.world.hostiles) : roomObs.world.hostiles[i].id = <<"hostile", 1>>
    /\ damagedCreeps(roomObs.world) # <<>>
    /\ \A tower \in 1..2 :
         roomObs.calls[tower] = <<[act |-> "attack", target |-> <<"hostile", 5>>]>>

\* ------------------------------------------------------------ C30

\* the room of the last tick gave the towers something to do
SomethingToDo ==
    \/ roomObs.world.hostiles # <<>>
    \/ damagedCreeps(roomObs.world) # <<>>
    \/ criticalStructures(roomObs.world) # <<>>
    \/ damagedWalls(roomObs.world) # <<>>
    \/ damagedInfrastructure(roomObs.world) # <<>>

\* C30 (as stated): every tower makes exactly one call (attack, heal or
\* repair) in every tick.
C30_ExactlyOneAction ==
    roomObs.by = "tick" =>
        \A tower \in 1..roomObs.world.towers : Len(roomObs.calls[tower]) = 1

\* C30 (amended): every tower makes one call at most in a tick: exactly one
\* (attack, heal or repair) when the room holds a hostile creep, a damaged
\* creep of the player or a structure one of the three repair tests lets
\* through, and none otherwise.
C30_AtMostOneAction ==
    roomObs.by = "tick" =>
        \A tower \in 1..roomObs.world.towers :
            /\ Len(roomObs.calls[tower]) = IF SomethingToDo THEN 1 ELSE 0
            /\ \A n \in 1..Len(roomObs.calls[tower]) :
                 roomObs.calls[tower][n].act \in {"attack", "heal", "repair"}

\* two towers in a room at peace where only a road and a container are worn:
\* each made its one repair, on the container
C30_Witness ==
    /\ roomObs.by = "tick"
    /\ roomObs.world.towers = 2
    /\ roomObs.world.hostiles = <<>>
    /\ \A tower \in 1..2 :
         roomObs.calls[tower] = <<[act |-> "repair", target |-> <<"container", 2>>]>>


\* ------------------------------------------------- manager.spawn.js: bodies

WORK == "work"
CARRY == "carry"
MOVE == "move"

\* n parts of one kind, as the array literals of the body functions list them
Repeat(part, n) == [i \in 1..n |-> part]

\* body.filter(p => p === part).length
CountParts(body, part) == Len(SelectSeq(body, LAMBDA p : p = part))

getMinerBody(energy, rcl) ==
    IF energy >= 550 THEN Repeat(WORK, 5) \o <<CARRY, MOVE>>
    ELSE IF energy >= 450 THEN Repeat(WORK, 4) \o <<CARRY, MOVE>>
    ELSE IF energy >= 350 THEN Repeat(WORK, 3) \o <<CARRY, MOVE>>
    ELSE <<WORK, WORK, CARRY, MOVE>>

getHaulerBody(energy, rcl) ==
    IF energy >= 1200 THEN Repeat(CARRY, 16) \o Repeat(MOVE, 8)
    ELSE IF energy >= 600 THEN Repeat(CARRY, 8) \o Repeat(MOVE, 4)
    ELSE IF energy >= 300 THEN Repeat(CARRY, 4) \o Repeat(MOVE, 2)
    ELSE <<CARRY, CARRY, MOVE>>

getUpgraderBody(energy, rcl) ==
    IF energy >= 1100 /\ rcl >= 7
    THEN Repeat(WORK, 6) \o Repeat(CARRY, 3) \o Repeat(MOVE, 6)
    ELSE IF energy >= 800
    THEN Repeat(WORK, 4) \o Repeat(CARRY, 4) \o Repeat(MOVE, 4)
    ELSE IF energy >= 550
    THEN Repeat(WORK, 3) \o Repeat(CARRY, 2) \o Repeat(MOVE, 3)
    ELSE IF energy >= 300
    THEN <<WORK, WORK, CARRY, MOVE, MOVE>>
    ELSE <<WORK, CARRY, MOVE>>

getBuilderBody(energy, rcl) ==
    IF energy >= 800
    THEN Repeat(WORK, 4) \o Repeat(CARRY, 4) \o Repeat(MOVE, 4)
    ELSE IF energy >= 550
    THEN Repeat(WORK, 3) \o Repeat(CARRY, 3) \o Repeat(MOVE, 3)
    ELSE IF energy >= 400
    THEN <<WORK, WORK, CARRY, CARRY, MOVE, MOVE>>
    ELSE <<WORK, CARRY, MOVE>>

getMineralMinerBody(energy, rcl) ==
    IF energy >= 1200
    THEN Repeat(WORK, 8) \o Repeat(CARRY, 4) \o Repeat(MOVE, 6)
    ELSE IF energy >= 800
    THEN Repeat(WORK, 6) \o Repeat(CARRY, 3) \o Repeat(MOVE, 4)
    ELSE <<WORK, WORK, WORK, CARRY, MOVE, MOVE>>

\* the body getSpawnPriority puts in the request of each rung
bodyOf(role, energy, rcl) ==
    CASE role = "harvester" -> <<WORK, CARRY, MOVE>>
      [] role = "miner" -> getMinerBody(energy, rcl)
      [] role = "hauler" -> getHaulerBody(energy, rcl)
      [] role = "upgrader" -> getUpgraderBody(energy, rcl)
      [] role = "builder" -> getBuilderBody(energy, rcl)
      [] role = "mineralMiner" -> getMineralMinerBody(energy, rcl)

\* what spawn.spawnCreep(body, ...) asks of the room's energy:
\* 100 for a WORK part, 50 for a CARRY part, 50 for a MOVE part
bodyCost(body) ==
    100 * CountParts(body, WORK) + 50 * CountParts(body, CARRY)
        + 50 * CountParts(body, MOVE)

\* the roles the ladder asks a body for
LadderRoles == {"harvester", "miner", "hauler", "upgrader", "builder", "mineralMiner"}

\* room.energyCapacityAvailable: the spawn's 300 and 50 for every extension
\* (100 from level 7) built, up to what the controller level allows
CapacityAt == <<300, 550, 800, 1300, 1800, 2300, 5600, 12900>>

\* controller levels and energy capacities of an owned room with a spawn;
\* the mineral rung is entered from level 6 only
BodyInputs ==
    {[role |-> r, rcl |-> l, energy |-> 300 + 50 * k] :
        r \in LadderRoles, l \in 1..8, k \in 0..40}

BodyCases ==
    {i \in BodyInputs :
        /\ i.energy <= CapacityAt[i.rcl]
        /\ i.role = "mineralMiner" => i.rcl >= 6}

\* a role, a controller level and two capacities c1 < c2 to ask bodies for
BodyInit ==
    /\ EarlierIdle
    /\ LaterIdle("rooms")
    /\ Game_time = 1
    /\ room_memory = [part |-> "bodies"]
    /\ Game_market_orders = {}
    /\ \E lo \in BodyCases, hi \in BodyCases :
          /\ lo.role = hi.role /\ lo.rcl = hi.rcl /\ lo.energy < hi.energy
          /\ roomObs = [by |-> "start", role |-> lo.role, rcl |-> lo.rcl,
                        c1 |-> lo.energy, c2 |-> hi.energy]

\* the body functions called for the role and the level at the two capacities
BodyChosen ==
    /\ room_memory.part = "bodies"
    /\ roomObs.by = "start"
    /\ roomObs' = [by |-> "bodies", role |-> roomObs.role, rcl |-> roomObs.rcl,
                   c1 |-> roomObs.c1, c2 |-> roomObs.c2,
                   body1 |-> bodyOf(roomObs.role, roomObs.c1, roomObs.rcl),
                   body2 |-> bodyOf(roomObs.role, roomObs.c2, roomObs.rcl)]
    /\ UNCHANGED <<room_memory, Game_market_orders, Game_time>>
    /\ UNCHANGED notRoomVars

BodyNext == BodyChosen

SpecBodies == BodyInit /\ [][BodyNext]_vars

\* ------------------------------------------------------------ C31

\* C31: for every role and controller level and capacities c1 < c2, the body
\* for c1 has no more WORK, no more CARRY and no more MOVE parts than the
\* body for c2
C31_BodyMonotone ==
    roomObs.by = "bodies" =>
        \A part \in {WORK, CARRY, MOVE} :
            CountParts(roomObs.body1, part) <= CountParts(roomObs.body2, part)

\* ------------------------------------------------------------ C37

\* C37: for every role, every controller level and every energy capacity of
\* 300 or more, the body chosen for the capacity costs no more than the
\* capacity (WORK 100, CARRY 50, MOVE 50)
C37_BodyAffordable ==
    roomObs.by = "bodies" =>
        /\ bodyCost(roomObs.body1) <= roomObs.c1
        /\ bodyCost(roomObs.body2) <= roomObs.c2


\* ------------------------------------ manager.spawn.js: the request per room

\* var energy = room.energyAvailable
energyOf_Available(room) == room.energyAvailable

\* var energy = room.energyCapacityAvailable
energyOf(room) == room.energyCapacityAvailable

\* what getSpawnPriority returns: the rung's role, its body for the room's
\* capacity and level, and the memory of the new creep
spawnRequest(room) ==
    LET rung == getSpawnPriority(room)
    IN IF rung = Null THEN Null
       ELSE [role |-> rung.role,
             body |-> bodyOf(rung.role, energyOf(room), room.level),
             memory |->
                CASE rung.role = "miner" ->
                        [role |-> "miner", sourceId |-> rung.memory.sourceId,
                         homeRoom |-> room.name]
                  [] rung.role = "hauler" ->
                        [role |-> "hauler", homeRoom |-> room.name,
                         state |-> "collecting"]
                  [] rung.role = "mineralMiner" ->
                        [role |-> "mineralMiner", mineralId |-> room.minerals[1].id,
                         mining |-> TRUE]
                  [] OTHER -> [role |-> rung.role]]

\* what the claim lists of a room: the census, the source list, the level,
\* the capacity and the need signals
Signals(room) ==
    [creeps |-> room.creeps,
     sourceIds |-> room.sourceIds,
     level |-> room.level,
     energyCapacityAvailable |-> room.energyCapacityAvailable,
     constructionSites |-> room.constructionSites,
     minerals |-> [i \in 1..Len(room.minerals) |->
                      [mineralAmount |-> room.minerals[i].mineralAmount,
                       extractor |-> room.minerals[i].extractor]],
     containers |-> room.containers]

\* censuses on both sides of every rung's test
RequestCensuses(sourceCount) ==
    {[k \in Kinds |->
        CASE k.role = "hauler" -> h
          [] k.role = "upgrader" -> u
          [] k.role = "builder" -> b
          [] k.role = "miner" -> IF k.sourceId \in ms THEN 1 ELSE 0
          [] OTHER -> 0] :
        h \in {0, 2, 4}, u \in {0, 2}, b \in {0, 2},
        ms \in SUBSET (1..sourceCount)}

\* the part of a room the claim fixes, without the capacity
RequestSignals ==
    UNION {[creeps : RequestCensuses(n),
            sourceIds : {[i \in 1..n |-> i]},
            level : {5, 7},
            constructionSites : {0, 1},
            extractor : BOOLEAN,
            containers : {<<>>, <<499>>}] : n \in 1..NumSources}

\* the rest of a room: its name, its mineral's id, the energy it holds now
\* and its capacity
RequestRest ==
    [name : {"W1N1", "W2N2"},
     energyAvailable : {300, 1100},
     energyCapacityAvailable : {550, 1100}]

\* the room of the signals s and the rest r
RequestRoom(s, r) ==
    [creeps |-> s.creeps, sourceIds |-> s.sourceIds, level |-> s.level,
     constructionSites |-> s.constructionSites,
     minerals |-> <<[id |-> r.name, mineralAmount |-> 1, extractor |-> s.extractor]>>,
     containers |-> s.containers,
     name |-> r.name,
     energyAvailable |-> IF r.energyAvailable <= r.energyCapacityAvailable
                         THEN r.energyAvailable ELSE r.energyCapacityAvailable,
     energyCapacityAvailable |-> r.energyCapacityAvailable]

RequestInit ==
    /\ EarlierIdle
    /\ LaterIdle("rooms")
    /\ Game_time = 1
    /\ room_memory = [part |-> "request"]
    /\ Game_market_orders = {}
    /\ \E s \in RequestSignals, ra \in RequestRest, rb \in RequestRest :
          roomObs = [by |-> "start", a |-> RequestRoom(s, ra), b |-> RequestRoom(s, rb)]

\* getSpawnPriority called on each of the two rooms
RequestPair ==
    /\ room_memory.part = "request"
    /\ roomObs.by = "start"
    /\ roomObs' = [by |-> "pair", a |-> roomObs.a, b |-> roomObs.b,
                   first |-> spawnRequest(roomObs.a),
                   second |-> spawnRequest(roomObs.b)]
    /\ UNCHANGED <<room_memory, Game_market_orders, Game_time>>
    /\ UNCHANGED notRoomVars

RequestNext == RequestPair

SpecRequest == RequestInit /\ [][RequestNext]_vars

\* ------------------------------------------------------------ C32

\* C32: for two rooms of identical census, source list, level, energy
\* capacity and need signals (construction sites, mineral and extractor,
\* container fill), getSpawnPriority returns nothing for both or a request
\* of the same role and the same body for both
C32_SameRequest ==
    (roomObs.by = "pair" /\ Signals(roomObs.a) = Signals(roomObs.b)) =>
        IF roomObs.first = Null \/ roomObs.second = Null
        THEN roomObs.first = roomObs.second
        ELSE /\ roomObs.first.role = roomObs.second.role
             /\ roomObs.first.body = roomObs.second.body

\* two rooms of equal signals and different name and stored energy got two
\* hauler requests of one body and different memory
C32_Witness ==
    /\ roomObs.by = "pair"
    /\ Signals(roomObs.a) = Signals(roomObs.b)
    /\ roomObs.a.name # roomObs.b.name
    /\ roomObs.a.energyAvailable # roomObs.b.energyAvailable
    /\ roomObs.first # Null /\ roomObs.second # Null
    /\ roomObs.first.role = "hauler"
    /\ roomObs.first.memory # roomObs.second.memory
    /\ roomObs.first.body = roomObs.second.body


\* ------------------------------------------------ main.js: the whole loop

\* ticks the loop is followed for
MaxLoopTicks == 2

AnalyzeEvery == 50

PlanRoadsEvery == 100

\* the tick the loop is first run at: the periodic operations of the room
\* manager are due one tick later
FirstLoopTick == PlanRoadsEvery - 1

\* a room of Game.rooms: without a controller, with another player's, or
\* owned; an owned room has spawns, and its terminal manager may throw
TickRoom ==
    {[controller |-> "none", spawns |-> 0, throws |-> FALSE],
     [controller |-> "other", spawns |-> 0, throws |-> FALSE],
     [controller |-> "my", spawns |-> 0, throws |-> FALSE],
     [controller |-> "my", spawns |-> 2, throws |-> FALSE],
     [controller |-> "my", spawns |-> 1, throws |-> TRUE]}

TickRooms == UNION {[1..n -> TickRoom] : n \in 0..2}

TickCreeps == UNION {[1..n -> LoopCreep] : n \in 0..2}

\* a call made by the loop: on room r, and on its spawn n
LoopCall(op, r, n) == [op |-> op, room |-> r, n |-> n]

\* a loop that skips no room
Owned_Any(room) == TRUE

\* !(!room.controller || !room.controller.my)
Owned(room) == room.controller = "my"

\* roomManager.run(room), of room r at the tick time: the calls it makes, up
\* to the one that throws
roomManager_run(room, r, time) ==
    <<LoopCall("runTowers", r, 0), LoopCall("linkManager.run", r, 0),
      LoopCall("terminalManager.run", r, 0)>>
    \o (IF room.throws THEN <<>>
        ELSE <<LoopCall("labManager.run", r, 0), LoopCall("runPowerSpawn", r, 0)>>
             \o (IF time % AnalyzeEvery = 0
                 THEN <<LoopCall("analyzeRoom", r, 0), LoopCall("placeSourceContainers", r, 0)>>
                 ELSE <<>>)
             \o (IF time % PlanRoadsEvery = 0
                 THEN <<LoopCall("planRoads", r, 0)>> ELSE <<>>))

\* the body of for (var roomName in Game.rooms), of room r
RoomCalls(room, r, time) ==
    IF ~Owned(room) THEN <<>>
    ELSE <<LoopCall("initRoomMemory", r, 0)>>
         \o roomManager_run(room, r, time)
         \o (IF room.throws THEN <<>>
             ELSE [n \in 1..room.spawns |-> LoopCall("spawnManager.run", r, n)])

TickInit ==
    /\ SpawnIdle
    /\ SelIdle
    /\ HaulIdle
    /\ PathIdle
    /\ LaterIdle("rooms")
    /\ Game_time = FirstLoopTick
    /\ loopCreeps \in TickCreeps
    /\ hasSpawn \in BOOLEAN
    /\ loopPos = 1
    /\ ranRole = {}
    /\ errLog = <<>>
    /\ room_memory = [part |-> "tick"]
    /\ Game_market_orders = {}
    /\ \E rooms \in TickRooms :
          roomObs = [by |-> "tick", pc |-> "cleanup", rooms |-> rooms,
                     roomPos |-> 1, calls |-> <<>>]

\* memoryManager.runCleanup()
TickCleanup ==
    /\ room_memory.part = "tick"
    /\ roomObs.pc = "cleanup"
    /\ roomObs' = [roomObs EXCEPT
                      !.pc = IF Len(roomObs.rooms) = 0 THEN "creeps" ELSE "rooms",
                      !.calls = <<LoopCall("runCleanup", 0, 0)>>]
    /\ UNCHANGED <<room_memory, Game_market_orders, Game_time>>
    /\ UNCHANGED notRoomVars

\* one iteration of for (var roomName in Game.rooms); an exception of the
\* room's logic leaves the loop function
TickRoomStep ==
    /\ room_memory.part = "tick"
    /\ roomObs.pc = "rooms"
    /\ LET r == roomObs.roomPos
           room == roomObs.rooms[r]
       IN roomObs' = [roomObs EXCEPT
                         !.calls = @ \o RoomCalls(room, r, Game_time),
                         !.roomPos = r + 1,
                         !.pc = IF Owned(room) /\ room.throws THEN "thrown"
                                ELSE IF r = Len(roomObs.rooms) THEN "creeps"
                                ELSE "rooms"]
    /\ UNCHANGED <<room_memory, Game_market_orders, Game_time>>
    /\ UNCHANGED notRoomVars

\* one iteration of for (var name in Game.creeps), after the loop over the rooms
TickCreepStep ==
    /\ room_memory.part = "tick"
    /\ roomObs.pc = "creeps"
    /\ LoopStep

\* the loop function has returned or thrown; the next tick starts
TickEnds ==
    /\ room_memory.part = "tick"
    /\ \/ roomObs.pc = "thrown"
       \/ roomObs.pc = "creeps" /\ loopPos = Len(loopCreeps) + 1
    /\ Game_time < FirstLoopTick + MaxLoopTicks
    /\ Game_time' = Game_time + 1
    /\ \E rooms \in TickRooms :
          roomObs' = [by |-> "tick", pc |-> "cleanup", rooms |-> rooms,
                      roomPos |-> 1, calls |-> <<>>]
    /\ loopPos' = 1
    /\ ranRole' = {}
    /\ errLog' = <<>>
    /\ UNCHANGED <<loopCreeps, hasSpawn>>
    /\ UNCHANGED <<room_memory, Game_market_orders>>
    /\ UNCHANGED <<spawnVars, selVars, haulVars, pathVars>>
    /\ UNCHANGED <<memVars, cacheVars, roleVars, fleetVars, linkVars>>

TickNext ==
    \/ TickCleanup
    \/ TickRoomStep
    \/ TickCreepStep
    \/ TickEnds

SpecTick == TickInit /\ [][TickNext]_vars

\* ------------------------------------------------------------ C33

\* the calls of the per-room logic
FacilityOps ==
    {"initRoomMemory", "runTowers", "linkManager.run", "terminalManager.run",
     "labManager.run", "runPowerSpawn", "analyzeRoom", "placeSourceContainers",
     "planRoads", "spawnManager.run"}

\* the calls of this tick made on room r
CallsOn(r) == SelectSeq(roomObs.calls, LAMBDA c : c.room = r)

\* C33: within every tick the store cleanup is the first call and is made
\* once, before every call of the per-room logic (towers, links, terminal,
\* labs, spawns); when the role logic of any creep has run, the loop over
\* the rooms is over and every owned room has had its towers, links,
\* terminal and labs run, in this order, and every spawn of it run; no call
\* of the per-room logic is made on a room that is not owned, and no role
\* logic is run for a creep that is spawning.
C33_TickOrder ==
    roomObs.by = "tick" =>
        LET calls == roomObs.calls
            rooms == roomObs.rooms
        IN /\ \A i \in 1..Len(calls) :
                 /\ (calls[i].op = "runCleanup") = (i = 1)
                 /\ calls[i].op \in FacilityOps \cup {"runCleanup"}
                 /\ calls[i].op \in FacilityOps =>
                       /\ calls[i].room \in 1..Len(rooms)
                       /\ rooms[calls[i].room].controller = "my"
           /\ ranRole # {} =>
                 /\ roomObs.pc = "creeps"
                 /\ roomObs.roomPos = Len(rooms) + 1
                 /\ \A r \in 1..Len(rooms) :
                       rooms[r].controller = "my" =>
                          /\ SubSeq(CallsOn(r), 1, 6) =
                                <<LoopCall("initRoomMemory", r, 0), LoopCall("runTowers", r, 0),
                                  LoopCall("linkManager.run", r, 0),
                                  LoopCall("terminalManager.run", r, 0),
                                  LoopCall("labManager.run", r, 0),
                                  LoopCall("runPowerSpawn", r, 0)>>
                          /\ \A n \in 1..rooms[r].spawns :
                                \E i \in 1..Len(calls) :
                                   calls[i] = LoopCall("spawnManager.run", r, n)
           /\ \A i \in ranRole : ~loopCreeps[i].spawning

\* a tick has run to its end with a room of another player, an owned room
\* of two spawns, a spawning creep and a creep whose role logic ran, at a
\* tick of the periodic operations
C33_Witness ==
    /\ roomObs.by = "tick"
    /\ roomObs.pc = "creeps"
    /\ loopPos = Len(loopCreeps) + 1
    /\ Game_time % PlanRoadsEvery = 0
    /\ \E r \in 1..Len(roomObs.rooms) : roomObs.rooms[r].controller = "other"
    /\ \E r \in 1..Len(roomObs.rooms) :
          /\ roomObs.rooms[r].spawns = 2
          /\ \E i \in 1..Len(roomObs.calls) :
                roomObs.calls[i] = LoopCall("spawnManager.run", r, 2)
    /\ \E i \in 1..Len(loopCreeps) : loopCreeps[i].spawning
    /\ ranRole # {}


\* ------------------------------------------------------------ C34

\* the last run made the change collecting -> delivering
BecameDelivering ==
    /\ haulObs.phase # "none"
    /\ haulObs.store.free = 0
    /\ Len(haulObs.transitions) >= 1
    /\ haulObs.transitions[1].from = "collecting"

\* the state management run once more on the memory the last run left, with
\* the store of the last run: it changes nothing and the state is delivering
SecondStepIdle ==
    LET again == manageState(creepMemory, haulObs.store)
    IN /\ again.transitions = <<>>
       /\ again.memory = creepMemory
       /\ again.memory.state = "delivering"

\* C34 as stated: after the change collecting -> delivering, the state
\* management run a second time while the free capacity is still 0 changes
\* nothing: the state stays delivering, and the target and the path selected
\* since are not deleted.
C34_TransitionIdempotent ==
    BecameDelivering => SecondStepIdle

\* C34, amended: the same for a hauler that carries energy.  (A hauler
\* whose free capacity is 0 while it carries no energy makes both changes in
\* every run.)
C34_TransitionIdempotentIfLoaded ==
    (BecameDelivering /\ haulObs.store.energy > 0) => SecondStepIdle

\* a full hauler became delivering, selected a target and stored a path to it
C34_Witness ==
    /\ BecameDelivering
    /\ haulObs.store.energy > 0
    /\ creepMemory.state = "delivering"
    /\ creepMemory.target # NoTarget
    /\ creepMemory.path # NoPath


\* ------------------------------------------------------------ C35

\* C35: terminalManager.run run a second time in the tick of the last run,
\* on the room, the market and the Game.market.orders of that run, leaves
\* room.memory as the first run left it and makes no createOrder call, so
\* that the orders created are those of one run.
C35_RunTwiceSame ==
    (room_memory.part = "terminal" /\ roomObs.by = "tick") =>
        LET once == terminalManager_run(roomObs.before, roomObs.ordersBefore,
                                        roomObs.time, roomObs.world)
            twice == terminalManager_run(once.memory, roomObs.ordersBefore,
                                         roomObs.time, roomObs.world)
        IN /\ twice.memory = once.memory
           /\ once.created \o twice.created = once.created


\* ----------------------------------------- the spawns of a room: every rung

\* censuses within the counts the rungs ask for, with a hauler alive
CapCensuses(sourceCount) ==
    {[k \in Kinds |->
        CASE k.role = "hauler" -> h
          [] k.role = "upgrader" -> u
          [] k.role = "builder" -> b
          [] k.role = "mineralMiner" -> m
          [] k.role = "miner" -> IF k.sourceId \in ms THEN 1 ELSE 0
          [] OTHER -> 0] :
        h \in 1..Max(2, 2 * sourceCount), u \in 1..2, b \in 1..2, m \in 0..1,
        ms \in SUBSET (1..sourceCount)}

\* a room at any point of its life: creeps spawned by the ladder, some of
\* them dead since, and its spawns idle
CapsInit ==
    /\ EarlierIdle
    /\ LaterIdle("fleet")
    /\ Game_time = MaxFleetTime - 1
    /\ fleetRoom \in
         [sourceIds : {[i \in 1..n |-> i] : n \in 1..NumSources},
          level : {6, 8},
          constructionSites : {0, 1},
          minerals : {<<>>, <<[mineralAmount |-> 1, extractor |-> TRUE]>>},
          containers : {<<>>, <<499>>}]
    /\ roomCreeps \in CapCensuses(Len(fleetRoom.sourceIds))
    /\ createdCreeps = [k \in Kinds |-> 0]
    /\ createdNames = {}
    /\ busySpawns = [i \in 1..NumSpawns |-> 0]
    /\ spawnPos = 1
    /\ fleetObs = [role |-> "none"]

CapsNext ==
    \/ spawnManager_run_OfLoop
    \/ FleetTickEnds

SpecCaps == CapsInit /\ [][CapsNext]_vars

\* ------------------------------------------------------------ C36

\* the creeps of a role: those room.find returns and those requested in
\* this tick
Population(role) == CountRole(roomCreeps, role) + CountRole(createdCreeps, role)

CapsHold ==
    LET N == Len(fleetRoom.sourceIds)
    IN /\ Population("miner") <= N
       /\ Population("hauler") <= Max(2, 2 * N)
       /\ Population("upgrader") <= 2
       /\ Population("builder") <= 2
       /\ Population("mineralMiner") <= 1

\* the run of a spawn that is spawning asks for nothing
BusyNotAsked ==
    (spawnPos \in 1..NumSpawns /\ busySpawns[spawnPos] > 0 /\ spawnPos' = spawnPos + 1)
        => /\ fleetObs'.role = "none"
           /\ createdNames' = createdNames
           /\ createdCreeps' = createdCreeps

DestInit ==
    /\ SpawnIdle
    /\ LoopIdle
    /\ SelIdle
    /\ PathIdle
    /\ LaterIdle("none")
    /\ creepMemory = SpawnMemory
    /\ haulObs = [phase |-> "start", pathTo |-> NoTarget]
    /\ Game_time = 1

\* what one run leaves to look at: the object the run moved to or acted on,
\* whether it followed the path of creep.memory, the object that path was
\* computed to (pathWas) and the object the path now in creep.memory was
\* computed to (pathTo)
DestDigest(out) ==
    LET followed == out.calls # <<>> /\ out.calls[1].call = "moveByPath"
        computed == \E i \in 1..Len(out.calls) : out.calls[i].call = "findPathTo"
    IN [phase |-> "run",
        used |-> out.used,
        followed |-> followed,
        pathWas |-> haulObs.pathTo,
        pathTo |-> IF out.memory.path = NoPath THEN NoTarget
                   ELSE IF computed THEN out.used
                   ELSE haulObs.pathTo]

\* one tick of a hauler: roleHauler.run with the store, the room and the
\* result codes of this tick
roleHauler_run_Moving ==
    /\ haulObs.phase \in {"start", "run"}
    /\ Game_time <= MaxTime
    /\ \E store \in Stores :
         LET sm == manageState(creepMemory, store)
         IN IF sm.memory.state = "collecting"
            THEN \E room \in HaulCollectRooms :
                 \E found \in findCollectionTarget(room), result \in ActionResults :
                 \E move \in (IF result = ERR_NOT_IN_RANGE /\ creepMemory.path # NoPath
                              THEN MoveResults ELSE {OK}),
                    path \in (IF result = ERR_NOT_IN_RANGE THEN FoundPaths ELSE {<<>>}) :
                   LET out == collect(sm.memory, room, Game_time,
                                      RunInput(found, result, move, path))
                   IN /\ creepMemory' = out.memory
                      /\ haulObs' = DestDigest(out)
            ELSE \E room \in HaulDeliverRooms :
                 \E found \in findDeliveryTarget(room), result \in ActionResults :
                 \E move \in (IF result = ERR_NOT_IN_RANGE /\ creepMemory.path # NoPath
                              THEN MoveResults ELSE {OK}),
                    path \in (IF result = ERR_NOT_IN_RANGE THEN FoundPaths ELSE {<<>>}) :
                   LET out == deliver(sm.memory, room, Game_time,
                                      RunInput(found, result, move, path))
                   IN /\ creepMemory' = out.memory
                      /\ haulObs' = DestDigest(out)
    /\ Game_time' = Game_time + 1
    /\ UNCHANGED notHaulVars

DestNext == roleHauler_run_Moving

SpecDestination == DestInit /\ [][DestNext]_vars

\* ------------------------------------------------------------ C38

\* C38: a path held in creep.memory was computed to the object the hauler
\* is moving to: whenever a run follows the path of creep.memory, the path
\* was computed to the object that run moves to, so that a change of the
\* object (a new target after the old one is gone, the storage taken when no
\* delivery target is found) deletes the path before the next follow.
C38_PathMatchesDestination ==
    (haulObs.phase = "run" /\ haulObs.followed) => haulObs.pathWas = haulObs.used


\* ------------------------------------------------------------ C39

\* C39: whatever the terminal's energy, the storage's energy, the haulers
\* and the terminal's cooldown are from tick to tick,
\* room.memory.terminalNeedsEnergy and room.memory.terminalHasExcessEnergy
\* are never both true.
C39_FlagsExclusive ==
    room_memory.part = "terminal" =>
        ~(/\ Truthy(room_memory.terminalNeedsEnergy)
          /\ Truthy(room_memory.terminalHasExcessEnergy))


\* --------------------------------- role.mineralMiner.js: the life of a miner

\* the store of a mineral miner with one CARRY part: empty, partly filled
\* with the mineral, full of it
EmptyStore == [free |-> 50, used |-> 0, mineral |-> FALSE]

PartStore == [free |-> 30, used |-> 20, mineral |-> TRUE]

FullStore == [free |-> 0, used |-> 50, mineral |-> TRUE]

\* what a tick brings beside the miner's store and the mineral's amount
LifeWorlds(store, amount) ==
    {[QuietWorld EXCEPT !.amount = amount, !.store = store, !.inRange = r,
                        !.extractor = e, !.terminal = t, !.actionResult = a] :
        r \in BOOLEAN, e \in {<<[cooldown |-> 0]>>, <<[cooldown |-> 5]>>},
        t \in {<<>>, <<1000>>}, a \in {OK, ERR_NOT_IN_RANGE}}

\* the store after the calls of a run: a harvest that returned OK adds to
\* it, a transfer that returned OK and a drop empty it
StoresAfter(store, world, calls) ==
    IF "harvest" \in Acts(calls) /\ world.actionResult = OK
    THEN IF store = EmptyStore THEN {PartStore, FullStore} ELSE {FullStore}
    ELSE IF "drop" \in Acts(calls) THEN {EmptyStore}
    ELSE IF "transfer" \in Acts(calls) /\ world.actionResult = OK THEN {EmptyStore}
    ELSE {store}

\* the mineral's amount after the calls of a run: a harvest may take the
\* last of it; a mineral that is used up stays so for longer than a creep
\* lives
AmountsAfter(amount, world, calls) ==
    IF "harvest" \in Acts(calls) /\ world.actionResult = OK
    THEN {amount, 0} ELSE {amount}

\* a mineral miner as it is spawned, its mineral not used up
LifeInit ==
    /\ EarlierIdle
    /\ LaterIdle("role")
    /\ Game_time = 1
    /\ creepRecord = MineralMinerMemory
    /\ roleObs = [by |-> "life", store |-> EmptyStore, amount |-> 100,
                  world |-> QuietWorld, calls |-> <<>>]

\* a tick of the miner's life: roleMineralMiner.run, and what its calls do
\* to the store and to the mineral (the run reads no clock, and the miner
\* is followed for as long as it lives)
LifeTick ==
    /\ creepRecord.role = "mineralMiner"
    /\ roleObs.by = "life"
    /\ \E world \in LifeWorlds(roleObs.store, roleObs.amount) :
         LET out == roleMineralMiner_run(creepRecord, world)
         IN /\ creepRecord' = out.memory
            /\ \E store \in StoresAfter(roleObs.store, world, out.calls),
                  amount \in AmountsAfter(roleObs.amount, world, out.calls) :
                 roleObs' = [by |-> "life", store |-> store, amount |-> amount,
                             world |-> world, calls |-> out.calls]
    /\ UNCHANGED Game_time
    /\ UNCHANGED notRoleVars

LifeNext == LifeTick

\* a tick in which the extractor is ready and the action of the run is in
\* range
LifeTickInReach ==
    /\ LifeTick
    /\ roleObs'.world.actionResult = OK
    /\ roleObs'.world.extractor[1].cooldown = 0

\* the loop of main.js runs the role logic of a living creep on every tick;
\* the extractor's cooldown ends and the moves of the miner bring it in
\* range, again and again
SpecMineralLife ==
    LifeInit /\ [][LifeNext]_vars /\ WF_vars(LifeNext) /\ SF_vars(LifeTickInReach)

\* ------------------------------------------------------------ C40

\* the miner carries the mineral
Loaded == roleObs.by = "life" /\ roleObs.store.mineral

\* the last run called transfer or drop
DepositAttempted ==
    roleObs.by = "life" /\ Acts(roleObs.calls) \cap {"transfer", "drop"} # {}

\* C40: a mineral miner that carries the mineral calls transfer (to the
\* terminal, the storage or a container) or drop in some later run of its
\* life, also when the mineral was used up after the load was taken.
C40_DepositLiveness == Loaded ~> DepositAttempted

====
